---- MODULE Spec2Model ----
(***************************************************************************)
(* A model of the PDF test generator's terminal application (package tui), *)
(* its persistence layer (package database) and its text helpers.          *)
(*                                                                         *)
(* Conventions.                                                            *)
(*  - A Go string is a sequence of one-character strings, so that          *)
(*    strings.TrimSpace, strings.ToLower and strings.EqualFold are         *)
(*    modelled by what they do. Fixed messages shown to the user are kept  *)
(*    as plain TLA+ strings.                                               *)
(*  - Go indices are 0-based and kept 0-based in the fields; a sequence is *)
(*    indexed with index + 1.                                              *)
(*  - A float64 is an exact rational [num, den] in lowest terms.           *)
(*  - A nil pointer is NIL; a nil slice or map is the empty one, and the   *)
(*    one slice the code tests for nil (testResults.results) carries the   *)
(*    flag resultsNil.                                                     *)
(*  - One input event is one Update step followed by one View step, as the *)
(*    Bubble Tea runtime calls View after every Update.                    *)
(*  - Wall-clock values (created_at, completed_at, time_taken, the test    *)
(*    start time) are not modelled; rows are kept in insertion order.      *)
(***************************************************************************)
EXTENDS Integers, Sequences, FiniteSets, TLC

VARIABLES
  currentView,      \* App.currentView
  status,           \* "running", "quit" (tea.Quit) or "panic" (runtime panic)
  phase,            \* "update": waiting for an event; "view": View() is due
  mainMenu,         \* MainMenuModel
  fileSelection,    \* FileSelectionModel
  pdfProcess,       \* PDFProcessModel
  customQuestion,   \* CustomQuestionModel
  testSelection,    \* TestSelectionModel
  testTaking,       \* TestTakingModel
  testResults,      \* TestResultsModel
  currentTest,      \* App.currentTest
  currentQuestions, \* App.currentQuestions
  userAnswers,      \* App.userAnswers
  db,               \* the SQLite tables
  scenario,         \* which screens the user operates in this run
  probe             \* argument and result of a helper called on its own

vars == <<currentView, status, phase, mainMenu, fileSelection, pdfProcess,
          customQuestion, testSelection, testTaking, testResults, currentTest,
          currentQuestions, userAnswers, db, scenario, probe>>

NIL == [nil |-> TRUE]

\* ------------------------------------------------------------- bounds
MaxQuestions == 2   \* questions of a stored test
MaxResults == 1     \* rows of test_results
MaxInput == 2       \* characters typed into one input buffer
MaxTests == 1       \* rows of tests
MaxGenerated == 2   \* questions returned by one call of GenerateQuestions
MaxScored == 4      \* questions of a list given to calculateScore
MaxSessions == 2    \* sessions saved with their answers before a delete is applied
MaxText == 54       \* characters of a text handed to GetTextSummary
MaxPages == 3       \* pages of a document handed to ExtractText
MaxShortInput == 1  \* characters typed into an answer or an option of a question
                    \* that is saved by the custom wizard

\* ------------------------------------------------------------- views
MainMenuView == "main_menu"
PDFProcessView == "pdf_process"
CustomQuestionView == "custom_question"
TestSelectionView == "test_selection"
TestTakingView == "test_taking"
TestResultsView == "test_results"
FileSelectionView == "file_selection"
QuestionGenView == "question_gen"

\* ------------------------------------------------------------- strings
IsSpace(c) == c \in {" ", "\t", "\n", "\r"}

LowerChar(c) ==
  CASE c = "A" -> "a" [] c = "B" -> "b" [] c = "C" -> "c" [] c = "D" -> "d"
    [] c = "E" -> "e" [] c = "F" -> "f" [] c = "T" -> "t" [] c = "R" -> "r"
    [] c = "U" -> "u" [] c = "L" -> "l" [] c = "S" -> "s" [] c = "X" -> "x"
    [] OTHER -> c

ToLower(s) == [i \in 1..Len(s) |-> LowerChar(s[i])]

RECURSIVE TrimLeft(_)
TrimLeft(s) ==
  IF s # <<>> /\ IsSpace(Head(s)) THEN TrimLeft(Tail(s)) ELSE s

RECURSIVE TrimRight(_)
TrimRight(s) ==
  IF s # <<>> /\ IsSpace(s[Len(s)]) THEN TrimRight(SubSeq(s, 1, Len(s) - 1)) ELSE s

TrimSpace(s) == TrimRight(TrimLeft(s))

EqualFold(s, t) == ToLower(s) = ToLower(t)

\* ------------------------------------------------------------- float64
RECURSIVE GCD(_, _)
GCD(a, b) == IF b = 0 THEN a ELSE GCD(b, a % b)

Rat(n, d) == LET g == GCD(n, d) IN [num |-> n \div g, den |-> d \div g]
RatInt(n) == [num |-> n, den |-> 1]
RatDiv(r, q) == Rat(r.num * q.den, r.den * q.num)
RatMul(r, q) == Rat(r.num * q.num, r.den * q.den)
RatGE(r, k) == r.num >= k * r.den
RatTrunc(r) == r.num \div r.den

\* ------------------------------------------------------------- database
Reverse(s) == [i \in 1..Len(s) |-> s[Len(s) + 1 - i]]

RECURSIVE SeqMap(_, _)
SeqMap(Op(_), s) == IF s = <<>> THEN <<>> ELSE <<Op(Head(s))>> \o SeqMap(Op, Tail(s))

Range(s) == {s[i] : i \in 1..Len(s)}

\* CreateQuestion's hand-written encoding of the options column.
RECURSIVE JoinOptions(_)
JoinOptions(options) ==
  IF Len(options) = 1 THEN Head(options)
  ELSE Head(options) \o <<"\"", ",", "\"">> \o JoinOptions(Tail(options))

EncodeOptions(options) ==
  IF Len(options) = 0 THEN <<>>
  ELSE <<"[", "\"">> \o JoinOptions(options) \o <<"\"", "]">>

\* json.Unmarshal of the options column into []string: [ok, val, rest].
\* ParseString reads the characters after an opening quote.
RECURSIVE ParseString(_, _)
ParseString(s, acc) ==
  IF s = <<>> THEN [ok |-> FALSE, val |-> acc, rest |-> s]
  ELSE IF Head(s) = "\"" THEN [ok |-> TRUE, val |-> acc, rest |-> Tail(s)]
  ELSE IF Head(s) \in {"\n", "\t", "\r"} THEN [ok |-> FALSE, val |-> acc, rest |-> s]
  ELSE IF Head(s) = "\\"
       THEN IF Len(s) >= 2 /\ s[2] \in {"\"", "\\", "/"}
            THEN ParseString(SubSeq(s, 3, Len(s)), Append(acc, s[2]))
            ELSE IF Len(s) >= 2 /\ s[2] \in {"n", "t", "r"}
            THEN ParseString(SubSeq(s, 3, Len(s)),
                             Append(acc, CASE s[2] = "n" -> "\n" [] s[2] = "t" -> "\t"
                                           [] OTHER -> "\r"))
            ELSE [ok |-> FALSE, val |-> acc, rest |-> s]
  ELSE ParseString(Tail(s), Append(acc, Head(s)))

RECURSIVE ParseElements(_, _)
ParseElements(s, acc) ==
  LET s1 == TrimLeft(s)
  IN IF s1 = <<>> \/ Head(s1) # "\"" THEN [ok |-> FALSE, val |-> acc]
     ELSE LET str == ParseString(Tail(s1), <<>>)
              s2 == TrimLeft(str.rest)
          IN IF ~str.ok \/ s2 = <<>> THEN [ok |-> FALSE, val |-> acc]
             ELSE IF Head(s2) = "]"
                  THEN [ok |-> TrimLeft(Tail(s2)) = <<>>, val |-> Append(acc, str.val)]
             ELSE IF Head(s2) = ","
                  THEN ParseElements(Tail(s2), Append(acc, str.val))
             ELSE [ok |-> FALSE, val |-> acc]

\* The Options of a row read back: nil for an empty column, the parsed array, or
\* the empty fallback when the column does not parse.
DecodeOptions(optionsJSON) ==
  IF optionsJSON = <<>> THEN <<>>
  ELSE LET s1 == TrimLeft(optionsJSON)
       IN IF s1 = <<>> \/ Head(s1) # "[" THEN <<>>
          ELSE LET s2 == TrimLeft(Tail(s1))
               IN IF s2 # <<>> /\ Head(s2) = "]" THEN <<>>
                  ELSE LET r == ParseElements(s2, <<>>)
                       IN IF r.ok THEN r.val ELSE <<>>

\* INSERT INTO tests (name, description)
CreateTest(d, name, description) ==
  LET id == d.seq.tests + 1
  IN [d EXCEPT !.tests = Append(@, [id |-> id, name |-> name, description |-> description]),
               !.seq.tests = id]

\* INSERT INTO questions (...)
CreateQuestion(d, testID, questionText, questionType, correctAnswer, explanation, options) ==
  LET id == d.seq.questions + 1
  IN [d EXCEPT !.questions = Append(@, [id |-> id, test_id |-> testID,
                                        question_text |-> questionText,
                                        question_type |-> questionType,
                                        options |-> EncodeOptions(options),
                                        correct_answer |-> correctAnswer,
                                        explanation |-> explanation]),
               !.seq.questions = id]

\* A row of questions as database.Question (the options column parsed).
QuestionOfRow(row) ==
  [ID |-> row.id, TestID |-> row.test_id, QuestionText |-> row.question_text,
   QuestionType |-> row.question_type, Options |-> DecodeOptions(row.options),
   CorrectAnswer |-> row.correct_answer, Explanation |-> row.explanation]

TestOfRow(row) == [ID |-> row.id, Name |-> row.name, Description |-> row.description]

\* SELECT ... FROM tests ORDER BY created_at DESC
GetAllTests(d) == SeqMap(TestOfRow, Reverse(d.tests))

\* SELECT ... FROM questions WHERE test_id = ? ORDER BY id
GetQuestionsByTestID(d, testID) ==
  LET Mine(row) == row.test_id = testID
  IN SeqMap(QuestionOfRow, SelectSeq(d.questions, Mine))

\* INSERT INTO test_results (...); ids come from AUTOINCREMENT and are never reused.
SaveTestResult(d, testID, score, totalQuestions, correctAnswers) ==
  LET id == d.seq.results + 1
  IN [d EXCEPT !.results = Append(@, [id |-> id, test_id |-> testID, score |-> score,
                                      total_questions |-> totalQuestions,
                                      correct_answers |-> correctAnswers]),
               !.seq.results = id]

\* SELECT ... FROM test_results tr JOIN tests t ON tr.test_id = t.id
\* ORDER BY tr.completed_at DESC
GetAllTestResults(d) ==
  LET HasTest(row) == \E i \in 1..Len(d.tests) : d.tests[i].id = row.test_id
      NameOf(tid) == (CHOOSE t \in Range(d.tests) : t.id = tid).name
      Joined(row) == [ID |-> row.id, TestID |-> row.test_id, TestName |-> NameOf(row.test_id),
                      Score |-> row.score, TotalQuestions |-> row.total_questions,
                      CorrectAnswers |-> row.correct_answers]
  IN SeqMap(Joined, Reverse(SelectSeq(d.results, HasTest)))

\* SELECT ... FROM question_answers qa JOIN questions q ON qa.question_id = q.id
\* WHERE qa.result_id = ? ORDER BY qa.question_id
GetTestResultAnswers(d, resultID) ==
  LET Mine(row) == /\ row.result_id = resultID
                   /\ \E i \in 1..Len(d.questions) : d.questions[i].id = row.question_id
      Q(qid) == CHOOSE q \in Range(d.questions) : q.id = qid
      Joined(row) == [QuestionText |-> Q(row.question_id).question_text,
                      UserAnswer |-> row.user_answer,
                      CorrectAnswer |-> Q(row.question_id).correct_answer,
                      IsCorrect |-> row.is_correct,
                      Explanation |-> Q(row.question_id).explanation]
  IN SeqMap(Joined, SelectSeq(d.answers, Mine))

\* One committed transaction: the answers of the result, then the result.
DeleteTestResult(d, resultID) ==
  LET KeepA(row) == row.result_id # resultID
      KeepR(row) == row.id # resultID
  IN [d EXCEPT !.answers = SelectSeq(@, KeepA), !.results = SelectSeq(@, KeepR)]

\* One committed transaction: the answers to the test's questions, its results,
\* its questions, then the test.
DeleteTest(d, testID) ==
  LET QIds == {d.questions[i].id : i \in {j \in 1..Len(d.questions) : d.questions[j].test_id = testID}}
      KeepA(row) == row.question_id \notin QIds
      KeepR(row) == row.test_id # testID
      KeepQ(row) == row.test_id # testID
      KeepT(row) == row.id # testID
  IN [d EXCEPT !.answers = SelectSeq(@, KeepA), !.results = SelectSeq(@, KeepR),
               !.questions = SelectSeq(@, KeepQ), !.tests = SelectSeq(@, KeepT)]

\* INSERT INTO question_answers
SaveQuestionAnswer(d, resultID, questionID, userAnswer, isCorrect) ==
  LET id == d.seq.answers + 1
  IN [d EXCEPT !.answers = Append(@, [id |-> id, result_id |-> resultID,
                                      question_id |-> questionID,
                                      user_answer |-> userAnswer, is_correct |-> isCorrect]),
               !.seq.answers = id]

\* The transactions of the two deletes, statement by statement. failAt is the
\* statement that returns an error (0: none; one more than the number of
\* statements: the commit). The deferred tx.Rollback() leaves storage as it was
\* unless the commit was reached and succeeded. states: the storage as the
\* transaction sees it after each statement that was executed.
\* A faulty DeleteTestResult: the statements executed before the failure stay.
DeleteTestResultTxPartial(d, resultID, failAt) ==
  LET Exec(tx, i) ==
        CASE i = 1 -> [tx EXCEPT !.answers =
                                        SelectSeq(@, LAMBDA row : row.result_id # resultID)]
          [] i = 2 -> [tx EXCEPT !.results = SelectSeq(@, LAMBDA row : row.id # resultID)]
      run[i \in 0..2] == IF i = 0 THEN d ELSE Exec(run[i - 1], i)
      executed == IF failAt = 0 THEN 2 ELSE failAt - 1
  IN [db |-> run[executed],
      err |-> failAt # 0,
      states |-> [i \in 1..executed |-> run[i]]]

DeleteTestResultTx(d, resultID, failAt) ==
  LET Exec(tx, i) ==
        CASE i = 1 -> [tx EXCEPT !.answers =
                                        SelectSeq(@, LAMBDA row : row.result_id # resultID)]
          [] i = 2 -> [tx EXCEPT !.results = SelectSeq(@, LAMBDA row : row.id # resultID)]
      run[i \in 0..2] == IF i = 0 THEN d ELSE Exec(run[i - 1], i)
      executed == IF failAt = 0 THEN 2 ELSE failAt - 1
  IN [db |-> IF failAt = 0 THEN run[2] ELSE d,
      err |-> failAt # 0,
      states |-> [i \in 1..executed |-> run[i]]]

\* A faulty DeleteTest: the results of the test are not deleted.
DeleteTestTxKeepingResults(d, testID, failAt) ==
  LET QIds(tx) == {tx.questions[j].id :
                     j \in {n \in 1..Len(tx.questions) : tx.questions[n].test_id = testID}}
      Exec(tx, i) ==
        CASE i = 1 -> [tx EXCEPT !.answers =
                                        SelectSeq(@, LAMBDA row : row.question_id \notin QIds(tx))]
                [] i = 2 -> tx
                [] i = 3 -> [tx EXCEPT !.questions =
                                        SelectSeq(@, LAMBDA row : row.test_id # testID)]
                [] i = 4 -> [tx EXCEPT !.tests = SelectSeq(@, LAMBDA row : row.id # testID)]
      run[i \in 0..4] == IF i = 0 THEN d ELSE Exec(run[i - 1], i)
      executed == IF failAt = 0 THEN 4 ELSE failAt - 1
  IN [db |-> IF failAt = 0 THEN run[4] ELSE d,
      err |-> failAt # 0,
      states |-> [i \in 1..executed |-> run[i]]]

DeleteTestTx(d, testID, failAt) ==
  LET QIds(tx) == {tx.questions[j].id :
                     j \in {n \in 1..Len(tx.questions) : tx.questions[n].test_id = testID}}
      Exec(tx, i) ==
        CASE i = 1 -> [tx EXCEPT !.answers =
                                        SelectSeq(@, LAMBDA row : row.question_id \notin QIds(tx))]
                [] i = 2 -> [tx EXCEPT !.results =
                                        SelectSeq(@, LAMBDA row : row.test_id # testID)]
                [] i = 3 -> [tx EXCEPT !.questions =
                                        SelectSeq(@, LAMBDA row : row.test_id # testID)]
                [] i = 4 -> [tx EXCEPT !.tests = SelectSeq(@, LAMBDA row : row.id # testID)]
      run[i \in 0..4] == IF i = 0 THEN d ELSE Exec(run[i - 1], i)
      executed == IF failAt = 0 THEN 4 ELSE failAt - 1
  IN [db |-> IF failAt = 0 THEN run[4] ELSE d,
      err |-> failAt # 0,
      states |-> [i \in 1..executed |-> run[i]]]

\* ------------------------------------------------------------- pdf processor
SummaryWindow == 50   \* i > maxLength-50
MinLineLength == 3    \* len(line) < 3

\* A faulty summary: the scan goes one position further down.
GetTextSummaryWiderWindow(text, maxLength) ==
  IF Len(text) <= maxLength THEN text
  ELSE LET scan[i \in 0..maxLength] ==
             IF ~(i >= maxLength - SummaryWindow /\ i > 0) THEN maxLength
             ELSE IF text[i + 1] \in {" ", ".", "\n"} THEN i
             ELSE scan[i - 1]
       IN SubSeq(text, 1, scan[maxLength]) \o <<".", ".", ".">>

\* text[i] of the code is text[i + 1] here; maxLength is not negative.
GetTextSummary(text, maxLength) ==
  IF Len(text) <= maxLength THEN text
  ELSE LET scan[i \in 0..maxLength] ==
             IF ~(i > maxLength - SummaryWindow /\ i > 0) THEN maxLength
             ELSE IF text[i + 1] \in {" ", ".", "\n"} THEN i
             ELSE scan[i - 1]
       IN SubSeq(text, 1, scan[maxLength]) \o <<".", ".", ".">>

\* A faulty extraction: a page is cleaned without trimming its lines.
ExtractTextUntrimmedLines(doc) ==
  LET Split(text) ==
        LET cut[i \in 0..Len(text)] ==
              IF i = 0 THEN <<<<>>>>
              ELSE IF text[i] = "\n" THEN Append(cut[i - 1], <<>>)
              ELSE [cut[i - 1] EXCEPT ![Len(cut[i - 1])] = Append(@, text[i])]
        IN cut[Len(text)]
      Join(lines) ==
        LET joined[i \in 0..Len(lines)] ==
              IF i = 0 THEN <<>>
              ELSE IF i = 1 THEN lines[1]
              ELSE joined[i - 1] \o <<" ">> \o lines[i]
        IN joined[Len(lines)]
      cleanText(text) ==
        LET lines == Split(text)
            cleanedLines[i \in 0..Len(lines)] ==
              IF i = 0 THEN <<>>
              ELSE LET line == lines[i]
                   IN IF line = <<>> THEN cleanedLines[i - 1]
                      ELSE IF Len(line) < MinLineLength THEN cleanedLines[i - 1]
                      ELSE Append(cleanedLines[i - 1], line)
        IN Join(cleanedLines[Len(lines)])
      textBuilder[pageIndex \in 0..Len(doc.pages)] ==
        IF pageIndex = 0 THEN <<>>
        ELSE LET page == doc.pages[pageIndex]
             IN IF page.null \/ page.err THEN textBuilder[pageIndex - 1]
                ELSE IF cleanText(page.text) # <<>>
                     THEN textBuilder[pageIndex - 1] \o cleanText(page.text) \o <<"\n", "\n">>
                     ELSE textBuilder[pageIndex - 1]
      extractedText == textBuilder[Len(doc.pages)]
  IN IF ~doc.opens THEN [text |-> <<>>, err |-> "failed to open PDF file"]
     ELSE IF extractedText = <<>>
          THEN [text |-> <<>>, err |-> "no text could be extracted from the PDF"]
          ELSE [text |-> TrimSpace(extractedText), err |-> ""]

\* ExtractText with cleanText (lines 59-82): doc is what pdf.Open and the pages
\* answer; err "" is a nil error.
ExtractText(doc) ==
  LET Split(text) ==
        LET cut[i \in 0..Len(text)] ==
              IF i = 0 THEN <<<<>>>>
              ELSE IF text[i] = "\n" THEN Append(cut[i - 1], <<>>)
              ELSE [cut[i - 1] EXCEPT ![Len(cut[i - 1])] = Append(@, text[i])]
        IN cut[Len(text)]
      Join(lines) ==
        LET joined[i \in 0..Len(lines)] ==
              IF i = 0 THEN <<>>
              ELSE IF i = 1 THEN lines[1]
              ELSE joined[i - 1] \o <<" ">> \o lines[i]
        IN joined[Len(lines)]
      cleanText(text) ==
        LET lines == Split(text)
            cleanedLines[i \in 0..Len(lines)] ==
              IF i = 0 THEN <<>>
              ELSE LET line == TrimSpace(lines[i])
                   IN IF line = <<>> THEN cleanedLines[i - 1]
                      ELSE IF Len(line) < MinLineLength THEN cleanedLines[i - 1]
                      ELSE Append(cleanedLines[i - 1], line)
        IN Join(cleanedLines[Len(lines)])
      textBuilder[pageIndex \in 0..Len(doc.pages)] ==
        IF pageIndex = 0 THEN <<>>
        ELSE LET page == doc.pages[pageIndex]
             IN IF page.null \/ page.err THEN textBuilder[pageIndex - 1]
                ELSE IF cleanText(page.text) # <<>>
                     THEN textBuilder[pageIndex - 1] \o cleanText(page.text) \o <<"\n", "\n">>
                     ELSE textBuilder[pageIndex - 1]
      extractedText == textBuilder[Len(doc.pages)]
  IN IF ~doc.opens THEN [text |-> <<>>, err |-> "failed to open PDF file"]
     ELSE IF extractedText = <<>>
          THEN [text |-> <<>>, err |-> "no text could be extracted from the PDF"]
          ELSE [text |-> TrimSpace(extractedText), err |-> ""]

\* ------------------------------------------------------------- constructors
NewMainMenuModel == [cursor |-> 0]
NumChoices == 5   \* len(MainMenuModel.choices)

NewTestSelectionModel ==
  [tests |-> <<>>, cursor |-> 0, purpose |-> "", errorMsg |-> "", loading |-> FALSE]

NewTestTakingModel ==
  [currentQuestion |-> 0, input |-> <<>>, inputMode |-> FALSE, showResult |-> FALSE,
   resultMsg |-> "", cursor |-> 0, errorMsg |-> "", reviewMode |-> FALSE,
   reviewQuestion |-> 0]

NewTestResultsModel ==
  [cursor |-> 0, results |-> <<>>, resultsNil |-> TRUE, selectedResult |-> NIL, viewMode |-> "list",
   errorMsg |-> "", successMsg |-> ""]

EmptyAnswers == [id \in {} |-> <<>>]   \* make(map[int]string)

\* ------------------------------------------------------------- helpers of App
letters == << <<"A">>, <<"B">>, <<"C">>, <<"D">> >>
StrTrue == <<"t", "r", "u", "e">>
StrFalse == <<"f", "a", "l", "s", "e">>

RECURSIVE CountCorrect(_, _)
CountCorrect(questions, answers) ==
  IF questions = <<>> THEN 0
  ELSE LET q == Head(questions)
           rest == CountCorrect(Tail(questions), answers)
       IN IF q.ID \notin DOMAIN answers THEN rest
          ELSE IF ToLower(TrimSpace(q.CorrectAnswer)) = ToLower(TrimSpace(answers[q.ID]))
               THEN rest + 1
               ELSE rest

\* A faulty calculateScore: the score is taken over the answered questions only.
calculateScoreOverAnswered(questions, answers) ==
  LET correct == CountCorrect(questions, answers)
      total == Cardinality({i \in 1..Len(questions) : questions[i].ID \in DOMAIN answers})
  IN [correct |-> correct,
      score |-> IF total > 0
                THEN RatMul(RatDiv(RatInt(correct), RatInt(total)), RatInt(100))
                ELSE RatInt(0)]

\* (correct, score)
calculateScore(questions, answers) ==
  LET correct == CountCorrect(questions, answers)
      total == Len(questions)
  IN [correct |-> correct,
      score |-> IF total > 0
                THEN RatMul(RatDiv(RatInt(correct), RatInt(total)), RatInt(100))
                ELSE RatInt(0)]

\* A faulty getGrade: the thresholds are open lower bounds.
getGradeOpen(percentage) ==
  CASE percentage.num > 90 * percentage.den -> "A"
    [] percentage.num > 80 * percentage.den -> "B"
    [] percentage.num > 70 * percentage.den -> "C"
    [] percentage.num > 60 * percentage.den -> "D"
    [] OTHER -> "F"

getGrade(percentage) ==
  CASE RatGE(percentage, 90) -> "A"
    [] RatGE(percentage, 80) -> "B"
    [] RatGE(percentage, 70) -> "C"
    [] RatGE(percentage, 60) -> "D"
    [] OTHER -> "F"

IsChar(k) == Len(k) = 1   \* len(msg.String()) == 1

\* ------------------------------------------------------------- App
\* The App struct as one value: the handlers below are the methods on *App, each
\* mapping the App before the call to the App after it. e gives what the
\* collaborators answer during the event: e.load, e.op (a database call succeeds),
\* e.gen (what GenerateQuestions returns), e.failAt (the insert that fails, 0: none).
App ==
  [currentView |-> currentView, status |-> status, mainMenu |-> mainMenu,
   fileSelection |-> fileSelection, pdfProcess |-> pdfProcess,
   customQuestion |-> customQuestion, testSelection |-> testSelection,
   testTaking |-> testTaking, testResults |-> testResults, currentTest |-> currentTest,
   currentQuestions |-> currentQuestions, userAnswers |-> userAnswers, db |-> db]

\* ------------------------------------------------------------- main menu
handleMainMenuSelection(a) ==
  CASE a.mainMenu.cursor = 0 ->
         [a EXCEPT !.currentView = FileSelectionView,
                   !.fileSelection.purpose = "pdf_generation"]
    [] a.mainMenu.cursor = 1 -> [a EXCEPT !.currentView = CustomQuestionView]
    [] a.mainMenu.cursor = 2 ->
         [a EXCEPT !.currentView = TestSelectionView, !.testSelection.purpose = "take_test"]
    [] a.mainMenu.cursor = 3 ->
         [a EXCEPT !.currentView = TestSelectionView, !.testSelection.purpose = "view_tests"]
    [] a.mainMenu.cursor = 4 -> [a EXCEPT !.status = "quit"]
    [] OTHER -> a

updateMainMenu(a, k) ==
  CASE k = "q" -> [a EXCEPT !.status = "quit"]
    [] k \in {"up", "k"} ->
         IF a.mainMenu.cursor > 0 THEN [a EXCEPT !.mainMenu.cursor = @ - 1] ELSE a
    [] k \in {"down", "j"} ->
         IF a.mainMenu.cursor < NumChoices - 1 THEN [a EXCEPT !.mainMenu.cursor = @ + 1] ELSE a
    [] k \in {"enter", " "} -> handleMainMenuSelection(a)
    [] OTHER -> a

\* ------------------------------------------------------------- test results
\* TestResultData of one row of GetAllTestResults
ResultData(result) ==
  [ID |-> result.ID, TestName |-> result.TestName,
   Score |-> RatTrunc(result.Score),
   TotalQuestions |-> result.TotalQuestions,
   Percentage |-> RatMul(RatDiv(result.Score, RatInt(result.TotalQuestions)), RatInt(100)),
   Answers |-> <<>>]

loadTestResults(a, ok) ==
  IF ~ok THEN [a EXCEPT !.testResults.errorMsg = "Failed to load results"]
  ELSE LET results == SeqMap(ResultData, GetAllTestResults(a.db))
       IN [a EXCEPT !.testResults.results = results,
                    !.testResults.resultsNil = FALSE,
                    !.testResults.cursor = IF @ >= Len(results) THEN 0 ELSE @]

\* result is the pointer &results[idx] (0-based), or a pointer into a slice that
\* has been replaced since (idx = -1).
loadResultDetails(a, ok) ==
  IF ~ok THEN [a EXCEPT !.testResults.errorMsg = "Failed to load result details"]
  ELSE LET answers == GetTestResultAnswers(a.db, a.testResults.selectedResult.ID)
           idx == a.testResults.cursor + 1
       IN [a EXCEPT !.testResults.selectedResult.Answers = answers,
                    !.testResults.results[idx].Answers = answers]

deleteTestResult(a, e) ==
  LET tr == a.testResults
      inDetail == tr.viewMode = "detail" /\ tr.selectedResult # NIL
      inList == tr.viewMode = "list" /\ Len(tr.results) > 0
  IN IF ~inDetail /\ ~inList
     THEN [a EXCEPT !.testResults.errorMsg = "No result selected for deletion"]
     ELSE LET resultID == IF inDetail THEN tr.selectedResult.ID
                          ELSE tr.results[tr.cursor + 1].ID
          IN IF ~e.op
             THEN [a EXCEPT !.testResults.errorMsg = "Failed to delete result"]
             ELSE LET a1 == loadTestResults([a EXCEPT !.db = DeleteTestResult(a.db, resultID)],
                                            e.load)
                  IN [a1 EXCEPT !.testResults.viewMode = "list",
                                !.testResults.selectedResult = NIL,
                                !.testResults.successMsg = "Deleted result"]

LenResults(a) == Len(a.testResults.results)

handleResultsListInput(a, k, e) ==
  CASE k \in {"up", "k"} ->
         IF a.testResults.cursor > 0 THEN [a EXCEPT !.testResults.cursor = @ - 1] ELSE a
    [] k \in {"down", "j"} ->
         IF a.testResults.cursor < LenResults(a) - 1
         THEN [a EXCEPT !.testResults.cursor = @ + 1] ELSE a
    [] k \in {"enter", " "} ->
         IF LenResults(a) > 0
         THEN LET a1 == [a EXCEPT !.testResults.selectedResult =
                                     a.testResults.results[a.testResults.cursor + 1]]
              IN [loadResultDetails(a1, e.op) EXCEPT !.testResults.viewMode = "detail"]
         ELSE a
    [] k = "d" -> IF LenResults(a) > 0 THEN deleteTestResult(a, e) ELSE a
    [] k = "r" -> [loadTestResults(a, e.op) EXCEPT !.testResults.successMsg = "Results refreshed"]
    [] k = "q" -> [a EXCEPT !.currentView = MainMenuView]
    [] OTHER -> a

handleResultsDetailInput(a, k, e) ==
  CASE k = "b" -> [a EXCEPT !.testResults.viewMode = "list",
                            !.testResults.selectedResult = NIL]
    [] k = "d" -> deleteTestResult(a, e)
    [] k = "q" -> [a EXCEPT !.currentView = MainMenuView]
    [] OTHER -> a

updateTestResults(a, k, e) ==
  CASE a.testResults.viewMode = "list" -> handleResultsListInput(a, k, e)
    [] a.testResults.viewMode = "detail" -> handleResultsDetailInput(a, k, e)
    [] OTHER -> a

\* What viewResultsList and viewResultsDetail print for one result:
\* "Score: %d/%d (%.1f%%) - %s"
shownResult(result) ==
  LET percentage == RatMul(RatDiv(RatInt(result.Score), RatInt(result.TotalQuestions)),
                           RatInt(100))
  IN [correct |-> result.Score, total |-> result.TotalQuestions,
      percentage |-> percentage, grade |-> getGrade(percentage)]

\* ------------------------------------------------------------- test selection
loadTests(a, ok) ==
  [a EXCEPT !.testSelection.tests = IF ok THEN GetAllTests(a.db) ELSE <<>>,
            !.testSelection.errorMsg = IF ok THEN @ ELSE "Failed to load tests",
            !.testSelection.cursor = 0,
            !.testSelection.loading = FALSE]

handleTestSelection(a, e) ==
  IF Len(a.testSelection.tests) = 0 THEN a
  ELSE LET selectedTest == a.testSelection.tests[a.testSelection.cursor + 1]
           a1 == [a EXCEPT !.currentTest = selectedTest]
       IN CASE a.testSelection.purpose = "take_test" ->
                 IF ~e.op
                 THEN [a1 EXCEPT !.testSelection.errorMsg = "Failed to load questions"]
                 ELSE LET questions == GetQuestionsByTestID(a.db, selectedTest.ID)
                      IN IF Len(questions) = 0
                         THEN [a1 EXCEPT !.testSelection.errorMsg = "This test has no questions"]
                         ELSE [a1 EXCEPT !.currentQuestions = questions,
                                         !.userAnswers = EmptyAnswers,
                                         !.testTaking.currentQuestion = 0,
                                         !.testTaking.input = <<>>,
                                         !.currentView = TestTakingView]
            [] a.testSelection.purpose = "view_tests" ->
                 loadTestResults([a1 EXCEPT !.currentView = TestResultsView], e.op)
            [] OTHER -> a1

RemoveAt(s, i) == SubSeq(s, 1, i - 1) \o SubSeq(s, i + 1, Len(s))

\* A faulty deleteSelectedTest: the test after the selected one leaves the list.
deleteSelectedTestOffByOne(a, e) ==
  IF Len(a.testSelection.tests) = 0 THEN a
  ELSE LET selectedTest == a.testSelection.tests[a.testSelection.cursor + 1]
       IN IF ~e.op
          THEN [a EXCEPT !.testSelection.errorMsg = "Failed to delete test"]
          ELSE LET tests == RemoveAt(a.testSelection.tests, a.testSelection.cursor + 2)
               IN [a EXCEPT !.db = DeleteTest(a.db, selectedTest.ID),
                            !.testSelection.tests = tests,
                            !.testSelection.cursor =
                               IF @ >= Len(tests) /\ Len(tests) > 0 THEN Len(tests) - 1 ELSE @]

\* A faulty deleteSelectedTest: the cursor stays where it was.
deleteSelectedTestKeepingCursor(a, e) ==
  IF Len(a.testSelection.tests) = 0 THEN a
  ELSE LET selectedTest == a.testSelection.tests[a.testSelection.cursor + 1]
       IN IF ~e.op
          THEN [a EXCEPT !.testSelection.errorMsg = "Failed to delete test"]
          ELSE LET tests == RemoveAt(a.testSelection.tests, a.testSelection.cursor + 1)
               IN [a EXCEPT !.db = DeleteTest(a.db, selectedTest.ID),
                            !.testSelection.tests = tests]

deleteSelectedTest(a, e) ==
  IF Len(a.testSelection.tests) = 0 THEN a
  ELSE LET selectedTest == a.testSelection.tests[a.testSelection.cursor + 1]
       IN IF ~e.op
          THEN [a EXCEPT !.testSelection.errorMsg = "Failed to delete test"]
          ELSE LET tests == RemoveAt(a.testSelection.tests, a.testSelection.cursor + 1)
               IN [a EXCEPT !.db = DeleteTest(a.db, selectedTest.ID),
                            !.testSelection.tests = tests,
                            !.testSelection.cursor =
                               IF @ >= Len(tests) /\ Len(tests) > 0 THEN Len(tests) - 1 ELSE @]

updateTestSelection(a, k, e) ==
  IF a.testSelection.loading THEN a
  ELSE LET a0 == IF Len(a.testSelection.tests) = 0 THEN loadTests(a, e.load) ELSE a
       IN CASE k \in {"up", "k"} ->
                 IF a0.testSelection.cursor > 0
                 THEN [a0 EXCEPT !.testSelection.cursor = @ - 1] ELSE a0
            [] k \in {"down", "j"} ->
                 IF a0.testSelection.cursor < Len(a0.testSelection.tests) - 1
                 THEN [a0 EXCEPT !.testSelection.cursor = @ + 1] ELSE a0
            [] k \in {"enter", " "} -> handleTestSelection(a0, e)
            [] k = "d" ->
                 IF Len(a0.testSelection.tests) > 0 THEN deleteSelectedTest(a0, e) ELSE a0
            [] k = "r" -> loadTests(a0, e.op)
            [] OTHER -> a0

\* ------------------------------------------------------------- test taking
nextQuestion(a) ==
  LET a1 == [a EXCEPT !.testTaking.cursor = 0]
  IN IF a.testTaking.currentQuestion < Len(a.currentQuestions) - 1
     THEN [a1 EXCEPT !.testTaking.currentQuestion = @ + 1]
     ELSE [a1 EXCEPT !.testTaking.showResult = TRUE]

\* userAnswers[id] = answer
Record(answers, id, answer) ==
  [x \in DOMAIN answers \cup {id} |-> IF x = id THEN answer ELSE answers[x]]

handleMultipleChoice(a, k) ==
  LET currentQ == a.currentQuestions[a.testTaking.currentQuestion + 1]
  IN CASE k \in {"up", "k"} ->
            IF a.testTaking.cursor > 0 THEN [a EXCEPT !.testTaking.cursor = @ - 1] ELSE a
       [] k \in {"down", "j"} ->
            IF a.testTaking.cursor < Len(currentQ.Options) - 1
            THEN [a EXCEPT !.testTaking.cursor = @ + 1] ELSE a
       [] k \in {"enter", " "} ->
            IF Len(currentQ.Options) > a.testTaking.cursor /\ a.testTaking.cursor < Len(letters)
            THEN nextQuestion([a EXCEPT !.userAnswers =
                                 Record(@, currentQ.ID, letters[a.testTaking.cursor + 1])])
            ELSE a
       [] OTHER -> a

\* A faulty handleTrueFalse: Down moves to the next question without an answer.
handleTrueFalseAdvancing(a, k) ==
  LET currentQ == a.currentQuestions[a.testTaking.currentQuestion + 1]
  IN CASE k \in {"up", "k"} ->
            IF a.testTaking.cursor > 0 THEN [a EXCEPT !.testTaking.cursor = @ - 1] ELSE a
       [] k \in {"down", "j"} -> nextQuestion(a)
       [] k \in {"enter", " "} ->
            LET answer == IF a.testTaking.cursor = 1 THEN StrFalse ELSE StrTrue
            IN nextQuestion([a EXCEPT !.userAnswers = Record(@, currentQ.ID, answer)])
       [] OTHER -> a

handleTrueFalse(a, k) ==
  LET currentQ == a.currentQuestions[a.testTaking.currentQuestion + 1]
  IN CASE k \in {"up", "k"} ->
            IF a.testTaking.cursor > 0 THEN [a EXCEPT !.testTaking.cursor = @ - 1] ELSE a
       [] k \in {"down", "j"} ->
            IF a.testTaking.cursor < 1 THEN [a EXCEPT !.testTaking.cursor = @ + 1] ELSE a
       [] k \in {"enter", " "} ->
            LET answer == IF a.testTaking.cursor = 1 THEN StrFalse ELSE StrTrue
            IN nextQuestion([a EXCEPT !.userAnswers = Record(@, currentQ.ID, answer)])
       [] OTHER -> a

\* A faulty handleShortAnswer: a blank input is recorded as an answer.
handleShortAnswerAcceptingBlank(a, k) ==
  LET currentQ == a.currentQuestions[a.testTaking.currentQuestion + 1]
      input == a.testTaking.input
  IN CASE k = "enter" ->
            nextQuestion([a EXCEPT !.userAnswers = Record(@, currentQ.ID, TrimSpace(input)),
                                   !.testTaking.input = <<>>])
       [] k = "backspace" ->
            IF Len(input) > 0
            THEN [a EXCEPT !.testTaking.input = SubSeq(input, 1, Len(input) - 1)] ELSE a
       [] OTHER ->
            IF IsChar(k) THEN [a EXCEPT !.testTaking.input = Append(input, k)] ELSE a

\* A faulty handleShortAnswer: the answer is recorded as typed.
handleShortAnswerUntrimmed(a, k) ==
  LET currentQ == a.currentQuestions[a.testTaking.currentQuestion + 1]
      input == a.testTaking.input
  IN CASE k = "enter" ->
            IF TrimSpace(input) = <<>>
            THEN [a EXCEPT !.testTaking.errorMsg = "Please enter an answer"]
            ELSE nextQuestion([a EXCEPT !.userAnswers = Record(@, currentQ.ID, input),
                                        !.testTaking.input = <<>>])
       [] k = "backspace" ->
            IF Len(input) > 0
            THEN [a EXCEPT !.testTaking.input = SubSeq(input, 1, Len(input) - 1)] ELSE a
       [] OTHER ->
            IF IsChar(k) THEN [a EXCEPT !.testTaking.input = Append(input, k)] ELSE a

handleShortAnswer(a, k) ==
  LET currentQ == a.currentQuestions[a.testTaking.currentQuestion + 1]
      input == a.testTaking.input
  IN CASE k = "enter" ->
            IF TrimSpace(input) = <<>>
            THEN [a EXCEPT !.testTaking.errorMsg = "Please enter an answer"]
            ELSE nextQuestion([a EXCEPT !.userAnswers = Record(@, currentQ.ID, TrimSpace(input)),
                                        !.testTaking.input = <<>>])
       [] k = "backspace" ->
            IF Len(input) > 0
            THEN [a EXCEPT !.testTaking.input = SubSeq(input, 1, Len(input) - 1)] ELSE a
       [] OTHER ->
            IF IsChar(k) THEN [a EXCEPT !.testTaking.input = Append(input, k)] ELSE a

handleAnswerReview(a, k) ==
  CASE k \in {"left", "h"} ->
         IF a.testTaking.reviewQuestion > 0
         THEN [a EXCEPT !.testTaking.reviewQuestion = @ - 1] ELSE a
    [] k \in {"right", "l"} ->
         IF a.testTaking.reviewQuestion < Len(a.currentQuestions) - 1
         THEN [a EXCEPT !.testTaking.reviewQuestion = @ + 1] ELSE a
    [] k = "esc" ->
         [a EXCEPT !.testTaking.reviewMode = FALSE, !.testTaking.reviewQuestion = 0]
    [] OTHER -> a

\* A faulty saveTestResults: the session is reset whether or not the result is saved.
saveTestResultsAlwaysReset(a, ok) ==
  LET cs == calculateScore(a.currentQuestions, a.userAnswers)
      total == Len(a.currentQuestions)
  IN [a EXCEPT !.db = IF ok THEN SaveTestResult(a.db, a.currentTest.ID, cs.score, total,
                                                cs.correct)
                      ELSE @,
               !.testTaking = IF ok THEN NewTestTakingModel
                              ELSE [NewTestTakingModel EXCEPT
                                      !.errorMsg = "Failed to save results"],
               !.currentTest = NIL,
               !.currentQuestions = <<>>,
               !.userAnswers = EmptyAnswers,
               !.currentView = MainMenuView]

\* A faulty saveTestResults: the session goes on after its result is saved.
saveTestResultsKeepSession(a, ok) ==
  LET cs == calculateScore(a.currentQuestions, a.userAnswers)
      total == Len(a.currentQuestions)
  IN IF ~ok
     THEN [a EXCEPT !.testTaking.errorMsg = "Failed to save results"]
     ELSE [a EXCEPT !.db = SaveTestResult(a.db, a.currentTest.ID, cs.score, total, cs.correct)]

saveTestResults(a, ok) ==
  LET cs == calculateScore(a.currentQuestions, a.userAnswers)
      total == Len(a.currentQuestions)
  IN IF ~ok
     THEN [a EXCEPT !.testTaking.errorMsg = "Failed to save results"]
     ELSE [a EXCEPT !.db = SaveTestResult(a.db, a.currentTest.ID, cs.score, total, cs.correct),
                    !.testTaking = NewTestTakingModel,
                    !.currentTest = NIL,
                    !.currentQuestions = <<>>,
                    !.userAnswers = EmptyAnswers,
                    !.currentView = MainMenuView]

handleResultView(a, k, e) ==
  IF a.testTaking.reviewMode THEN handleAnswerReview(a, k)
  ELSE CASE k = "enter" -> saveTestResults(a, e.op)
         [] k = "r" -> [a EXCEPT !.testTaking.reviewMode = TRUE,
                                 !.testTaking.reviewQuestion = 0]
         [] OTHER -> a

updateTestTaking(a, k, e) ==
  IF Len(a.currentQuestions) = 0 THEN [a EXCEPT !.currentView = MainMenuView]
  ELSE IF a.testTaking.showResult THEN handleResultView(a, k, e)
  ELSE LET currentQ == a.currentQuestions[a.testTaking.currentQuestion + 1]
       IN CASE currentQ.QuestionType = "multiple_choice" -> handleMultipleChoice(a, k)
            [] currentQ.QuestionType = "true_false" -> handleTrueFalse(a, k)
            [] currentQ.QuestionType = "short_answer" -> handleShortAnswer(a, k)
            [] OTHER -> a

\* What viewAnswerReview shows as CORRECT / INCORRECT for question i (0-based).
reviewIsCorrect(a, i) ==
  LET currentQ == a.currentQuestions[i + 1]
      userAnswer == IF currentQ.ID \in DOMAIN a.userAnswers
                    THEN a.userAnswers[currentQ.ID] ELSE <<>>
  IN EqualFold(userAnswer, currentQ.CorrectAnswer)

\* ------------------------------------------------------------- input helpers
\* validateInput: TRUE when it returns nil
validateInput(input, minLength) == Len(TrimSpace(input)) >= minLength

Digits == {"0", "1", "2", "3", "4", "5", "6", "7", "8", "9"}
DigitVal(c) ==
  CASE c = "0" -> 0 [] c = "1" -> 1 [] c = "2" -> 2 [] c = "3" -> 3 [] c = "4" -> 4
    [] c = "5" -> 5 [] c = "6" -> 6 [] c = "7" -> 7 [] c = "8" -> 8 [] c = "9" -> 9

RECURSIVE DigitsVal(_)
DigitsVal(s) == IF s = <<>> THEN 0 ELSE DigitsVal(SubSeq(s, 1, Len(s) - 1)) * 10 + DigitVal(s[Len(s)])

\* strconv.Atoi: [ok, val]; on an error val is 0
Atoi(s) ==
  LET body == IF s # <<>> /\ Head(s) \in {"+", "-"} THEN Tail(s) ELSE s
      ok == body # <<>> /\ \A i \in 1..Len(body) : body[i] \in Digits
  IN [ok |-> ok,
      val |-> IF ~ok THEN 0
              ELSE IF Head(s) = "-" THEN 0 - DigitsVal(body) ELSE DigitsVal(body)]

DropLast(s) == IF Len(s) > 0 THEN SubSeq(s, 1, Len(s) - 1) ELSE s

\* ------------------------------------------------------------- file selection
\* The file system seen by os.UserHomeDir, os.Stat and filepath.Walk.
HomeDir == <<"h">>
SubDir == <<"h", "a">>
FileA == <<"h", "1">>
FileB == <<"h", "a", "2">>
ExistingPaths == {HomeDir, SubDir, FileA, FileB}

\* listPDFFiles: the .pdf files under dir, in the order of the walk
listPDFFiles(dir) ==
  CASE dir = HomeDir -> <<FileA, FileB>>
    [] dir = SubDir -> <<FileB>>
    [] dir = FileA -> <<FileA>>
    [] dir = FileB -> <<FileB>>
    [] OTHER -> <<>>

NewFileSelectionModel ==
  [files |-> <<>>, cursor |-> 0, currentDir |-> HomeDir, purpose |-> "", errorMsg |-> "",
   loading |-> FALSE, inputMode |-> FALSE, input |-> <<>>]

refreshFileList(a, ok) ==
  [a EXCEPT !.fileSelection.files =
               IF ok /\ a.fileSelection.currentDir \in ExistingPaths
               THEN listPDFFiles(a.fileSelection.currentDir) ELSE <<>>,
            !.fileSelection.errorMsg =
               IF ok /\ a.fileSelection.currentDir \in ExistingPaths
               THEN @ ELSE "Error reading directory",
            !.fileSelection.cursor = 0]

handleFileSelection(a) ==
  IF Len(a.fileSelection.files) = 0 THEN a
  ELSE LET selectedFile == a.fileSelection.files[a.fileSelection.cursor + 1]
       IN IF a.fileSelection.purpose = "pdf_generation"
          THEN [a EXCEPT !.pdfProcess.selectedFile = selectedFile,
                         !.currentView = PDFProcessView]
          ELSE a

handleFileInputMode(a, k, e) ==
  CASE k = "enter" ->
         LET a1 == IF a.fileSelection.input \in ExistingPaths
                   THEN refreshFileList([a EXCEPT !.fileSelection.currentDir =
                                                     a.fileSelection.input], e.op)
                   ELSE [a EXCEPT !.fileSelection.errorMsg = "Directory does not exist"]
         IN [a1 EXCEPT !.fileSelection.inputMode = FALSE, !.fileSelection.input = <<>>]
    [] k = "esc" ->
         [a EXCEPT !.fileSelection.inputMode = FALSE, !.fileSelection.input = <<>>]
    [] k = "backspace" -> [a EXCEPT !.fileSelection.input = DropLast(@)]
    [] OTHER -> IF IsChar(k) THEN [a EXCEPT !.fileSelection.input = Append(@, k)] ELSE a

updateFileSelection(a, k, e) ==
  IF a.fileSelection.inputMode THEN handleFileInputMode(a, k, e)
  ELSE CASE k \in {"up", "k"} ->
              IF a.fileSelection.cursor > 0
              THEN [a EXCEPT !.fileSelection.cursor = @ - 1] ELSE a
         [] k \in {"down", "j"} ->
              IF a.fileSelection.cursor < Len(a.fileSelection.files) - 1
              THEN [a EXCEPT !.fileSelection.cursor = @ + 1] ELSE a
         [] k \in {"enter", " "} -> handleFileSelection(a)
         [] k = "r" -> refreshFileList(a, e.op)
         [] k = "c" -> [a EXCEPT !.fileSelection.inputMode = TRUE,
                                 !.fileSelection.input = a.fileSelection.currentDir]
         [] OTHER -> a

\* A faulty loop of inserts: the inserts after the failed one are still made.
RECURSIVE InsertQuestionsGoingOn(_, _, _, _, _)
InsertQuestionsGoingOn(d, testID, qs, n, failAt) ==
  IF qs = <<>> THEN [db |-> d, failed |-> failAt >= 1 /\ failAt < n]
  ELSE IF n = failAt THEN InsertQuestionsGoingOn(d, testID, Tail(qs), n + 1, failAt)
  ELSE LET q == Head(qs)
       IN InsertQuestionsGoingOn(CreateQuestion(d, testID, q.Text, q.Type, q.CorrectAnswer,
                                                q.Explanation, q.Options),
                                 testID, Tail(qs), n + 1, failAt)

\* ------------------------------------------------------------- creating a test
\* The loop of inserts shared by generateQuestions and saveCustomTest: the
\* questions qs are inserted in order into test testID and insert number failAt
\* (1-based; 0: none) fails, which ends the loop. [db, failed]
RECURSIVE InsertQuestions(_, _, _, _, _)
InsertQuestions(d, testID, qs, n, failAt) ==
  IF qs = <<>> THEN [db |-> d, failed |-> FALSE]
  ELSE IF n = failAt THEN [db |-> d, failed |-> TRUE]
  ELSE LET q == Head(qs)
       IN InsertQuestions(CreateQuestion(d, testID, q.Text, q.Type, q.CorrectAnswer,
                                         q.Explanation, q.Options),
                          testID, Tail(qs), n + 1, failAt)

\* ------------------------------------------------------------- PDF process
QuestionTypeOrder == <<"multiple_choice", "true_false", "short_answer">>

StrGeneratedTest == <<"G", "e", "n", "e", "r", "a", "t", "e", "d", " ", "T", "e", "s", "t">>
StrGeneratedDesc == <<"T", "e", "s", "t", " ", "g", "e", "n", "e", "r", "a", "t", "e", "d",
                      " ", "f", "r", "o", "m", " ", "P", "D", "F">>

NewPDFProcessModel ==
  [selectedFile |-> <<>>, extractedText |-> <<>>, step |-> 0, errorMsg |-> "",
   successMsg |-> "", loading |-> FALSE, numQuestions |-> <<"5">>,
   questionTypes |-> [t \in Range(QuestionTypeOrder) |-> t = "multiple_choice"],
   testName |-> StrGeneratedTest, testDesc |-> StrGeneratedDesc,
   inputMode |-> "", input |-> <<>>, cursor |-> 0]

\* ExtractText of the text-extraction collaborator on a readable file
TextOf(file) == CASE file = FileA -> <<"t", "1">> [] file = FileB -> <<"t", "2">> [] OTHER -> <<>>

\* A faulty extractPDFText: a failed extraction returns with the flag still set.
extractPDFTextStillLoading(a, e) ==
  IF a.pdfProcess.extractedText # <<>> THEN [a EXCEPT !.pdfProcess.step = 1]
  ELSE IF ~e.op \/ TextOf(a.pdfProcess.selectedFile) = <<>>
       THEN [a EXCEPT !.pdfProcess.errorMsg = "Failed to extract text",
                      !.pdfProcess.loading = TRUE]
       ELSE [a EXCEPT !.pdfProcess.extractedText = TextOf(a.pdfProcess.selectedFile),
                      !.pdfProcess.successMsg = "Text extracted successfully!",
                      !.pdfProcess.loading = FALSE,
                      !.pdfProcess.step = 1]

\* A faulty extractPDFText: a failed extraction goes on to the configure step.
extractPDFTextGoingOn(a, e) ==
  IF a.pdfProcess.extractedText # <<>> THEN [a EXCEPT !.pdfProcess.step = 1]
  ELSE IF ~e.op \/ TextOf(a.pdfProcess.selectedFile) = <<>>
       THEN [a EXCEPT !.pdfProcess.errorMsg = "Failed to extract text",
                      !.pdfProcess.loading = FALSE,
                      !.pdfProcess.step = 1]
       ELSE [a EXCEPT !.pdfProcess.extractedText = TextOf(a.pdfProcess.selectedFile),
                      !.pdfProcess.successMsg = "Text extracted successfully!",
                      !.pdfProcess.loading = FALSE,
                      !.pdfProcess.step = 1]

extractPDFText(a, e) ==
  IF a.pdfProcess.extractedText # <<>> THEN [a EXCEPT !.pdfProcess.step = 1]
  ELSE IF ~e.op \/ TextOf(a.pdfProcess.selectedFile) = <<>>
       THEN [a EXCEPT !.pdfProcess.errorMsg = "Failed to extract text",
                      !.pdfProcess.loading = FALSE]
       ELSE [a EXCEPT !.pdfProcess.extractedText = TextOf(a.pdfProcess.selectedFile),
                      !.pdfProcess.successMsg = "Text extracted successfully!",
                      !.pdfProcess.loading = FALSE,
                      !.pdfProcess.step = 1]

\* The first enabled type, in the order of the slice, hands over to its successor.
RECURSIVE ToggleFrom(_, _)
ToggleFrom(questionTypes, i) ==
  IF i > Len(QuestionTypeOrder) THEN questionTypes
  ELSE IF questionTypes[QuestionTypeOrder[i]]
       THEN LET nextType == QuestionTypeOrder[(i % Len(QuestionTypeOrder)) + 1]
                off == [questionTypes EXCEPT ![QuestionTypeOrder[i]] = FALSE]
            IN [off EXCEPT ![nextType] = TRUE]
       ELSE ToggleFrom(questionTypes, i + 1)

\* A faulty toggle: the successor of the first enabled type is enabled and the
\* type itself stays enabled.
toggleQuestionTypesKeeping(a) ==
  [a EXCEPT !.pdfProcess.questionTypes =
     [t \in DOMAIN @ |-> @[t] \/ ToggleFrom(@, 1)[t]]]

toggleQuestionTypes(a) == [a EXCEPT !.pdfProcess.questionTypes = ToggleFrom(@, 1)]

handleConfigureStep(a, k) ==
  CASE k \in {"up", "k"} ->
         IF a.pdfProcess.cursor > 0 THEN [a EXCEPT !.pdfProcess.cursor = @ - 1] ELSE a
    [] k \in {"down", "j"} ->
         IF a.pdfProcess.cursor < 3 THEN [a EXCEPT !.pdfProcess.cursor = @ + 1] ELSE a
    [] k = "n" ->
         IF a.pdfProcess.cursor = 0
         THEN [a EXCEPT !.pdfProcess.inputMode = "num_questions",
                        !.pdfProcess.input = a.pdfProcess.numQuestions] ELSE a
    [] k = "t" -> IF a.pdfProcess.cursor = 1 THEN toggleQuestionTypes(a) ELSE a
    [] k = "e" ->
         IF a.pdfProcess.cursor = 2
         THEN [a EXCEPT !.pdfProcess.inputMode = "test_name",
                        !.pdfProcess.input = a.pdfProcess.testName] ELSE a
    [] k = "d" ->
         IF a.pdfProcess.cursor = 3
         THEN [a EXCEPT !.pdfProcess.inputMode = "test_desc",
                        !.pdfProcess.input = a.pdfProcess.testDesc] ELSE a
    [] k \in {"enter", " "} -> [a EXCEPT !.pdfProcess.step = 2]
    [] OTHER -> a

handlePDFInputMode(a, k) ==
  LET input == a.pdfProcess.input
  IN CASE k = "enter" ->
            LET a1 ==
                  CASE a.pdfProcess.inputMode = "num_questions" ->
                         LET num == Atoi(TrimSpace(input))
                         IN IF num.ok /\ num.val > 0 /\ num.val <= 50
                            THEN [a EXCEPT !.pdfProcess.numQuestions = input]
                            ELSE [a EXCEPT !.pdfProcess.errorMsg =
                                    "Please enter a valid number between 1 and 50"]
                    [] a.pdfProcess.inputMode = "test_name" ->
                         IF validateInput(input, 1)
                         THEN [a EXCEPT !.pdfProcess.testName = TrimSpace(input)]
                         ELSE [a EXCEPT !.pdfProcess.errorMsg =
                                 "input must be at least 1 characters long"]
                    [] a.pdfProcess.inputMode = "test_desc" ->
                         [a EXCEPT !.pdfProcess.testDesc = TrimSpace(input)]
                    [] OTHER -> a
            IN [a1 EXCEPT !.pdfProcess.inputMode = "", !.pdfProcess.input = <<>>]
       [] k = "esc" -> [a EXCEPT !.pdfProcess.inputMode = "", !.pdfProcess.input = <<>>]
       [] k = "backspace" -> [a EXCEPT !.pdfProcess.input = DropLast(@)]
       [] OTHER -> IF IsChar(k) THEN [a EXCEPT !.pdfProcess.input = Append(@, k)] ELSE a

\* e.gen: what GenerateQuestions returns (err: an error); e.op: CreateTest
\* succeeds; e.failAt: the insert that fails.
generateQuestions(a, e) ==
  LET questionTypes == SelectSeq(QuestionTypeOrder, LAMBDA t : a.pdfProcess.questionTypes[t])
      numQuestions == Atoi(a.pdfProcess.numQuestions).val
  IN IF Len(questionTypes) = 0
     THEN [a EXCEPT !.pdfProcess.errorMsg = "Please select at least one question type",
                    !.pdfProcess.loading = FALSE, !.pdfProcess.step = 1]
     ELSE IF e.gen.err
     THEN [a EXCEPT !.pdfProcess.errorMsg = "Failed to generate questions",
                    !.pdfProcess.loading = FALSE]
     ELSE IF ~e.op
     THEN [a EXCEPT !.pdfProcess.errorMsg = "Failed to create test",
                    !.pdfProcess.loading = FALSE]
     ELSE LET d1 == CreateTest(a.db, a.pdfProcess.testName, a.pdfProcess.testDesc)
              r == InsertQuestions(d1, d1.seq.tests, e.gen.questions, 1, e.failAt)
          IN IF r.failed
             THEN [a EXCEPT !.db = r.db,
                            !.pdfProcess.errorMsg = "Failed to save question",
                            !.pdfProcess.loading = FALSE]
             ELSE [a EXCEPT !.db = r.db,
                            !.pdfProcess.loading = FALSE,
                            !.pdfProcess.successMsg = "Successfully generated questions!",
                            !.currentView = MainMenuView]

\* The arguments of the call of GenerateQuestions made by generateQuestions.
generateCall(a) ==
  [text |-> a.pdfProcess.extractedText,
   numQuestions |-> Atoi(a.pdfProcess.numQuestions).val,
   questionTypes |-> SelectSeq(QuestionTypeOrder, LAMBDA t : a.pdfProcess.questionTypes[t])]

updatePDFProcess(a, k, e) ==
  IF a.pdfProcess.loading THEN a
  ELSE IF a.pdfProcess.inputMode # "" THEN handlePDFInputMode(a, k)
  ELSE CASE a.pdfProcess.step = 0 ->
              IF k \in {"enter", " "} THEN extractPDFText(a, e) ELSE a
         [] a.pdfProcess.step = 1 -> handleConfigureStep(a, k)
         [] a.pdfProcess.step = 2 ->
              CASE k \in {"enter", " "} -> generateQuestions(a, e)
                [] k = "b" -> [a EXCEPT !.pdfProcess.step = 1]
                [] OTHER -> a
         [] OTHER -> a

\* ------------------------------------------------------------- custom questions
StrCustomTest == <<"C", "u", "s", "t", "o", "m", " ", "T", "e", "s", "t">>
StrCustomDesc == <<"C", "u", "s", "t", "o", "m", " ", "c", "r", "e", "a", "t", "e", "d",
                   " ", "t", "e", "s", "t">>
FourEmpty == << <<>>, <<>>, <<>>, <<>> >>   \* make([]string, 4)
QuestionTextMin == 5   \* validateInput(a.customQuestion.input, 5)

NewCustomQuestionModel ==
  [step |-> 0, cursor |-> 0, inputMode |-> "", input |-> <<>>, errorMsg |-> "",
   successMsg |-> "", testName |-> StrCustomTest, testDesc |-> StrCustomDesc,
   currentQuestion |-> [text |-> <<>>, qType |-> "multiple_choice", options |-> FourEmpty,
                        correctAnswer |-> <<>>, explanation |-> <<>>],
   questions |-> <<>>, questionTypes |-> QuestionTypeOrder, typeIndex |-> 0,
   optionIndex |-> 0]

handleTestInfoStep(a, k) ==
  CASE k \in {"up", "k"} ->
         IF a.customQuestion.cursor > 0 THEN [a EXCEPT !.customQuestion.cursor = @ - 1] ELSE a
    [] k \in {"down", "j"} ->
         IF a.customQuestion.cursor < 1 THEN [a EXCEPT !.customQuestion.cursor = @ + 1] ELSE a
    [] k = "n" ->
         IF a.customQuestion.cursor = 0
         THEN [a EXCEPT !.customQuestion.inputMode = "test_name",
                        !.customQuestion.input = a.customQuestion.testName] ELSE a
    [] k = "d" ->
         IF a.customQuestion.cursor = 1
         THEN [a EXCEPT !.customQuestion.inputMode = "test_desc",
                        !.customQuestion.input = a.customQuestion.testDesc] ELSE a
    [] k \in {"enter", " "} -> [a EXCEPT !.customQuestion.step = 1, !.customQuestion.cursor = 0]
    [] OTHER -> a

\* A faulty cycleQuestionType: the options entered so far are kept.
cycleQuestionTypeKeepingOptions(a) ==
  LET cq == a.customQuestion
      typeIndex == (cq.typeIndex + 1) % Len(cq.questionTypes)
      qType == cq.questionTypes[typeIndex + 1]
  IN [a EXCEPT !.customQuestion.typeIndex = typeIndex,
               !.customQuestion.currentQuestion.qType = qType]

cycleQuestionType(a) ==
  LET cq == a.customQuestion
      typeIndex == (cq.typeIndex + 1) % Len(cq.questionTypes)
      qType == cq.questionTypes[typeIndex + 1]
  IN [a EXCEPT !.customQuestion.typeIndex = typeIndex,
               !.customQuestion.currentQuestion.qType = qType,
               !.customQuestion.currentQuestion.options =
                  IF qType = "multiple_choice" THEN FourEmpty ELSE <<>>]

\* A faulty saveCurrentQuestion: one option is enough.
saveCurrentQuestionOneOption(a) ==
  LET cur == a.customQuestion.currentQuestion
      validOptions == Cardinality({i \in 1..Len(cur.options) : TrimSpace(cur.options[i]) # <<>>})
  IN IF TrimSpace(cur.text) = <<>>
     THEN [a EXCEPT !.customQuestion.errorMsg = "Question text is required"]
     ELSE IF TrimSpace(cur.correctAnswer) = <<>>
     THEN [a EXCEPT !.customQuestion.errorMsg = "Correct answer is required"]
     ELSE IF cur.qType = "multiple_choice" /\ validOptions < 1
     THEN [a EXCEPT !.customQuestion.errorMsg =
             "Multiple choice questions need at least 2 options"]
     ELSE LET question == [Text |-> TrimSpace(cur.text), Type |-> cur.qType,
                           Options |-> cur.options,
                           CorrectAnswer |-> TrimSpace(cur.correctAnswer),
                           Explanation |-> TrimSpace(cur.explanation)]
          IN [a EXCEPT !.customQuestion.questions = Append(@, question),
                       !.customQuestion.currentQuestion.text = <<>>,
                       !.customQuestion.currentQuestion.correctAnswer = <<>>,
                       !.customQuestion.currentQuestion.explanation = <<>>,
                       !.customQuestion.currentQuestion.options =
                          IF cur.qType = "multiple_choice" THEN FourEmpty ELSE <<>>,
                       !.customQuestion.successMsg = "Question saved!",
                       !.customQuestion.cursor = 0]

saveCurrentQuestion(a) ==
  LET cur == a.customQuestion.currentQuestion
      validOptions == Cardinality({i \in 1..Len(cur.options) : TrimSpace(cur.options[i]) # <<>>})
  IN IF TrimSpace(cur.text) = <<>>
     THEN [a EXCEPT !.customQuestion.errorMsg = "Question text is required"]
     ELSE IF TrimSpace(cur.correctAnswer) = <<>>
     THEN [a EXCEPT !.customQuestion.errorMsg = "Correct answer is required"]
     ELSE IF cur.qType = "multiple_choice" /\ validOptions < 2
     THEN [a EXCEPT !.customQuestion.errorMsg =
             "Multiple choice questions need at least 2 options"]
     ELSE LET question == [Text |-> TrimSpace(cur.text), Type |-> cur.qType,
                           Options |-> cur.options,
                           CorrectAnswer |-> TrimSpace(cur.correctAnswer),
                           Explanation |-> TrimSpace(cur.explanation)]
          IN [a EXCEPT !.customQuestion.questions = Append(@, question),
                       !.customQuestion.currentQuestion.text = <<>>,
                       !.customQuestion.currentQuestion.correctAnswer = <<>>,
                       !.customQuestion.currentQuestion.explanation = <<>>,
                       !.customQuestion.currentQuestion.options =
                          IF cur.qType = "multiple_choice" THEN FourEmpty ELSE <<>>,
                       !.customQuestion.successMsg = "Question saved!",
                       !.customQuestion.cursor = 0]

\* A faulty handleQuestionCreationStep: f goes on to the review step at once.
handleQuestionCreationStepFinishing(a, k) ==
  LET cq == a.customQuestion
  IN CASE k \in {"up", "k"} ->
            IF cq.cursor > 0 THEN [a EXCEPT !.customQuestion.cursor = @ - 1] ELSE a
       [] k \in {"down", "j"} ->
            IF cq.cursor < 4 THEN [a EXCEPT !.customQuestion.cursor = @ + 1] ELSE a
       [] k = "t" -> IF cq.cursor = 0 THEN cycleQuestionType(a) ELSE a
       [] k = "q" ->
            IF cq.cursor = 1
            THEN [a EXCEPT !.customQuestion.inputMode = "question",
                           !.customQuestion.input = cq.currentQuestion.text] ELSE a
       [] k = "o" ->
            IF cq.cursor = 2 /\ cq.currentQuestion.qType = "multiple_choice"
            THEN [a EXCEPT !.customQuestion.inputMode = "option",
                           !.customQuestion.optionIndex = 0,
                           !.customQuestion.input = cq.currentQuestion.options[1]] ELSE a
       [] k = "a" ->
            IF cq.cursor = 3
            THEN [a EXCEPT !.customQuestion.inputMode = "answer",
                           !.customQuestion.input = cq.currentQuestion.correctAnswer] ELSE a
       [] k = "e" ->
            IF cq.cursor = 4
            THEN [a EXCEPT !.customQuestion.inputMode = "explanation",
                           !.customQuestion.input = cq.currentQuestion.explanation] ELSE a
       [] k = "s" -> saveCurrentQuestion(a)
       [] k = "f" ->
            [a EXCEPT !.customQuestion.step = 2, !.customQuestion.cursor = 0]
       [] OTHER -> a

handleQuestionCreationStep(a, k) ==
  LET cq == a.customQuestion
  IN CASE k \in {"up", "k"} ->
            IF cq.cursor > 0 THEN [a EXCEPT !.customQuestion.cursor = @ - 1] ELSE a
       [] k \in {"down", "j"} ->
            IF cq.cursor < 4 THEN [a EXCEPT !.customQuestion.cursor = @ + 1] ELSE a
       [] k = "t" -> IF cq.cursor = 0 THEN cycleQuestionType(a) ELSE a
       [] k = "q" ->
            IF cq.cursor = 1
            THEN [a EXCEPT !.customQuestion.inputMode = "question",
                           !.customQuestion.input = cq.currentQuestion.text] ELSE a
       [] k = "o" ->
            IF cq.cursor = 2 /\ cq.currentQuestion.qType = "multiple_choice"
            THEN [a EXCEPT !.customQuestion.inputMode = "option",
                           !.customQuestion.optionIndex = 0,
                           !.customQuestion.input = cq.currentQuestion.options[1]] ELSE a
       [] k = "a" ->
            IF cq.cursor = 3
            THEN [a EXCEPT !.customQuestion.inputMode = "answer",
                           !.customQuestion.input = cq.currentQuestion.correctAnswer] ELSE a
       [] k = "e" ->
            IF cq.cursor = 4
            THEN [a EXCEPT !.customQuestion.inputMode = "explanation",
                           !.customQuestion.input = cq.currentQuestion.explanation] ELSE a
       [] k = "s" -> saveCurrentQuestion(a)
       [] k = "f" ->
            IF Len(cq.questions) > 0
            THEN [a EXCEPT !.customQuestion.step = 2, !.customQuestion.cursor = 0]
            ELSE [a EXCEPT !.customQuestion.errorMsg =
                    "Create at least one question before finishing"]
       [] OTHER -> a

\* A faulty saveCustomTest: the wizard is not reset after the test is created.
saveCustomTestKeepingWizard(a, e) ==
  IF Len(a.customQuestion.questions) = 0
  THEN [a EXCEPT !.customQuestion.errorMsg = "No questions to save"]
  ELSE IF ~e.op
  THEN [a EXCEPT !.customQuestion.errorMsg = "Failed to create test"]
  ELSE LET d1 == CreateTest(a.db, a.customQuestion.testName, a.customQuestion.testDesc)
           r == InsertQuestions(d1, d1.seq.tests, a.customQuestion.questions, 1, e.failAt)
       IN IF r.failed
          THEN [a EXCEPT !.db = r.db, !.customQuestion.errorMsg = "Failed to save question"]
          ELSE [a EXCEPT !.db = r.db, !.currentView = MainMenuView]

\* e.op: CreateTest succeeds; e.failAt: the insert that fails.
saveCustomTest(a, e) ==
  IF Len(a.customQuestion.questions) = 0
  THEN [a EXCEPT !.customQuestion.errorMsg = "No questions to save"]
  ELSE IF ~e.op
  THEN [a EXCEPT !.customQuestion.errorMsg = "Failed to create test"]
  ELSE LET d1 == CreateTest(a.db, a.customQuestion.testName, a.customQuestion.testDesc)
           r == InsertQuestions(d1, d1.seq.tests, a.customQuestion.questions, 1, e.failAt)
       IN IF r.failed
          THEN [a EXCEPT !.db = r.db, !.customQuestion.errorMsg = "Failed to save question"]
          ELSE [a EXCEPT !.db = r.db,
                         !.customQuestion = NewCustomQuestionModel,
                         !.currentView = MainMenuView]

handleReviewStep(a, k, e) ==
  CASE k \in {"enter", " "} -> saveCustomTest(a, e)
    [] k = "b" -> [a EXCEPT !.customQuestion.step = 1, !.customQuestion.cursor = 0]
    [] OTHER -> a

\* A faulty handleCustomQuestionInput: the input goes on after the last option.
handleCustomQuestionInputPastLast(a, k) ==
  LET cq == a.customQuestion
      input == cq.input
      done(a1) == [a1 EXCEPT !.customQuestion.inputMode = "", !.customQuestion.input = <<>>]
      tooShort(n) == IF n = 5 THEN "input must be at least 5 characters long"
                     ELSE "input must be at least 1 characters long"
  IN CASE k = "enter" ->
            CASE cq.inputMode = "test_name" ->
                   IF validateInput(input, 1)
                   THEN done([a EXCEPT !.customQuestion.testName = TrimSpace(input)])
                   ELSE done([a EXCEPT !.customQuestion.errorMsg = tooShort(1)])
              [] cq.inputMode = "test_desc" ->
                   done([a EXCEPT !.customQuestion.testDesc = TrimSpace(input)])
              [] cq.inputMode = "question" ->
                   IF validateInput(input, QuestionTextMin)
                   THEN done([a EXCEPT !.customQuestion.currentQuestion.text = TrimSpace(input)])
                   ELSE done([a EXCEPT !.customQuestion.errorMsg = tooShort(QuestionTextMin)])
              [] cq.inputMode = "answer" ->
                   IF validateInput(input, 1)
                   THEN done([a EXCEPT !.customQuestion.currentQuestion.correctAnswer =
                                          TrimSpace(input)])
                   ELSE done([a EXCEPT !.customQuestion.errorMsg = tooShort(1)])
              [] cq.inputMode = "explanation" ->
                   done([a EXCEPT !.customQuestion.currentQuestion.explanation =
                                     TrimSpace(input)])
              [] cq.inputMode = "option" ->
                   IF validateInput(input, 1)
                   THEN IF cq.optionIndex + 1 > Len(cq.currentQuestion.options)
                        THEN [a EXCEPT !.status = "panic"]
                        ELSE LET a1 == [a EXCEPT !.customQuestion.currentQuestion.options[cq.optionIndex + 1] =
                                                    TrimSpace(input)]
                             IN IF cq.optionIndex <= 3
                                THEN [a1 EXCEPT !.customQuestion.optionIndex = @ + 1,
                                                !.customQuestion.input =
                                                   IF cq.optionIndex < 3
                                                   THEN a1.customQuestion.currentQuestion.options[cq.optionIndex + 2]
                                                   ELSE <<>>]
                                ELSE done(a1)
                   ELSE done([a EXCEPT !.customQuestion.errorMsg = tooShort(1)])
              [] OTHER -> done(a)
       [] k = "esc" -> done(a)
       [] k = "backspace" -> [a EXCEPT !.customQuestion.input = DropLast(@)]
       [] OTHER -> IF IsChar(k) THEN [a EXCEPT !.customQuestion.input = Append(@, k)] ELSE a

handleCustomQuestionInput(a, k) ==
  LET cq == a.customQuestion
      input == cq.input
      done(a1) == [a1 EXCEPT !.customQuestion.inputMode = "", !.customQuestion.input = <<>>]
      tooShort(n) == IF n = 5 THEN "input must be at least 5 characters long"
                     ELSE "input must be at least 1 characters long"
  IN CASE k = "enter" ->
            CASE cq.inputMode = "test_name" ->
                   IF validateInput(input, 1)
                   THEN done([a EXCEPT !.customQuestion.testName = TrimSpace(input)])
                   ELSE done([a EXCEPT !.customQuestion.errorMsg = tooShort(1)])
              [] cq.inputMode = "test_desc" ->
                   done([a EXCEPT !.customQuestion.testDesc = TrimSpace(input)])
              [] cq.inputMode = "question" ->
                   IF validateInput(input, QuestionTextMin)
                   THEN done([a EXCEPT !.customQuestion.currentQuestion.text = TrimSpace(input)])
                   ELSE done([a EXCEPT !.customQuestion.errorMsg = tooShort(QuestionTextMin)])
              [] cq.inputMode = "answer" ->
                   IF validateInput(input, 1)
                   THEN done([a EXCEPT !.customQuestion.currentQuestion.correctAnswer =
                                          TrimSpace(input)])
                   ELSE done([a EXCEPT !.customQuestion.errorMsg = tooShort(1)])
              [] cq.inputMode = "explanation" ->
                   done([a EXCEPT !.customQuestion.currentQuestion.explanation =
                                     TrimSpace(input)])
              [] cq.inputMode = "option" ->
                   IF validateInput(input, 1)
                   THEN IF cq.optionIndex + 1 > Len(cq.currentQuestion.options)
                        THEN [a EXCEPT !.status = "panic"]
                        ELSE LET a1 == [a EXCEPT !.customQuestion.currentQuestion.options[cq.optionIndex + 1] =
                                                    TrimSpace(input)]
                             IN IF cq.optionIndex < 3
                                THEN [a1 EXCEPT !.customQuestion.optionIndex = @ + 1,
                                                !.customQuestion.input =
                                                   a1.customQuestion.currentQuestion.options[cq.optionIndex + 2]]
                                ELSE done(a1)
                   ELSE done([a EXCEPT !.customQuestion.errorMsg = tooShort(1)])
              [] OTHER -> done(a)
       [] k = "esc" -> done(a)
       [] k = "backspace" -> [a EXCEPT !.customQuestion.input = DropLast(@)]
       [] OTHER -> IF IsChar(k) THEN [a EXCEPT !.customQuestion.input = Append(@, k)] ELSE a

updateCustomQuestion(a, k, e) ==
  IF a.customQuestion.inputMode # "" THEN handleCustomQuestionInput(a, k)
  ELSE CASE a.customQuestion.step = 0 -> handleTestInfoStep(a, k)
         [] a.customQuestion.step = 1 -> handleQuestionCreationStep(a, k)
         [] a.customQuestion.step = 2 -> handleReviewStep(a, k, e)
         [] OTHER -> a

\* ------------------------------------------------------------- Update and View
\* A faulty Update: Esc is left to the screen's own handler.
UpdateWithoutIntercept(a, k, e) ==
  IF k = "ctrl+c" THEN [a EXCEPT !.status = "quit"]
  ELSE CASE a.currentView = MainMenuView -> updateMainMenu(a, k)
         [] a.currentView = PDFProcessView -> updatePDFProcess(a, k, e)
         [] a.currentView = CustomQuestionView -> updateCustomQuestion(a, k, e)
         [] a.currentView = TestSelectionView -> updateTestSelection(a, k, e)
         [] a.currentView = TestTakingView -> updateTestTaking(a, k, e)
         [] a.currentView = TestResultsView -> updateTestResults(a, k, e)
         [] a.currentView = FileSelectionView -> updateFileSelection(a, k, e)
         [] OTHER -> a

\* App.Update on a key message
Update(a, k, e) ==
  IF k = "ctrl+c" THEN [a EXCEPT !.status = "quit"]
  ELSE IF k = "esc" /\ a.currentView # MainMenuView
  THEN [a EXCEPT !.currentView = MainMenuView]
  ELSE CASE a.currentView = MainMenuView -> updateMainMenu(a, k)
         [] a.currentView = PDFProcessView -> updatePDFProcess(a, k, e)
         [] a.currentView = CustomQuestionView -> updateCustomQuestion(a, k, e)
         [] a.currentView = TestSelectionView -> updateTestSelection(a, k, e)
         [] a.currentView = TestTakingView -> updateTestTaking(a, k, e)
         [] a.currentView = TestResultsView -> updateTestResults(a, k, e)
         [] a.currentView = FileSelectionView -> updateFileSelection(a, k, e)
         [] OTHER -> a

viewTestTaking(a) ==
  IF Len(a.currentQuestions) = 0 THEN a
  ELSE IF a.currentTest = NIL THEN [a EXCEPT !.status = "panic"]
  ELSE LET a1 == [a EXCEPT !.testTaking.errorMsg = ""]
           idx == IF a.testTaking.showResult
                  THEN (IF a.testTaking.reviewMode THEN a.testTaking.reviewQuestion ELSE 0)
                  ELSE a.testTaking.currentQuestion
       IN IF idx >= Len(a.currentQuestions) THEN [a1 EXCEPT !.status = "panic"] ELSE a1

viewTestResults(a, ok) ==
  LET a1 == [a EXCEPT !.testResults.errorMsg = "", !.testResults.successMsg = ""]
  IN IF a1.testResults.viewMode = "list" /\ a1.testResults.resultsNil
     THEN loadTestResults(a1, ok) ELSE a1

\* App.View: the state it changes while rendering
View(a, ok) ==
  CASE a.currentView = PDFProcessView ->
         [a EXCEPT !.pdfProcess.errorMsg = "", !.pdfProcess.successMsg = ""]
    [] a.currentView = CustomQuestionView ->
         [a EXCEPT !.customQuestion.errorMsg = "", !.customQuestion.successMsg = ""]
    [] a.currentView = TestSelectionView -> [a EXCEPT !.testSelection.errorMsg = ""]
    [] a.currentView = TestTakingView -> viewTestTaking(a)
    [] a.currentView = TestResultsView -> viewTestResults(a, ok)
    [] a.currentView = FileSelectionView ->
         IF a.fileSelection.inputMode THEN a ELSE [a EXCEPT !.fileSelection.errorMsg = ""]
    [] OTHER -> a

\* ------------------------------------------------------------- environment
\* The questions of the stored tests a run starts from.
TmplMC4 == [question_type |-> "multiple_choice",
            options |-> << <<"w">>, <<"x">>, <<"y">>, <<"z">> >>, correct_answer |-> <<"B">>]
TmplMC2 == [question_type |-> "multiple_choice",
            options |-> << <<"w">>, <<"x">> >>, correct_answer |-> <<"a">>]
TmplTF == [question_type |-> "true_false", options |-> <<>>,
           correct_answer |-> <<"T", "r", "u", "e">>]
TmplSA == [question_type |-> "short_answer", options |-> <<>>, correct_answer |-> <<"A", " ">>]
Catalogue == <<TmplMC4, TmplSA, TmplTF>>

\* n questions of the catalogue, from the one at start on, cyclically
RECURSIVE Window(_, _)
Window(start, n) ==
  IF n = 0 THEN <<>>
  ELSE <<Catalogue[((start - 1) % Len(Catalogue)) + 1]>> \o Window(start + 1, n - 1)

RECURSIVE SeqsUpTo(_, _)
SeqsUpTo(S, n) ==
  IF n = 0 THEN {<<>>}
  ELSE LET shorter == SeqsUpTo(S, n - 1)
       IN shorter \cup {Append(s, x) : s \in {t \in shorter : Len(t) = n - 1}, x \in S}

EmptyDB ==
  [tests |-> <<>>, questions |-> <<>>, results |-> <<>>, answers |-> <<>>,
   seq |-> [tests |-> 0, questions |-> 0, results |-> 0, answers |-> 0]]

\* The rows of a test created with the questions qs (templates), as CreateTest
\* and CreateQuestion leave them.
RECURSIVE WithQuestions(_, _, _)
WithQuestions(d, testID, qs) ==
  IF qs = <<>> THEN d
  ELSE WithQuestions(CreateQuestion(d, testID, <<"q">>, Head(qs).question_type,
                                    Head(qs).correct_answer, <<>>, Head(qs).options),
                     testID, Tail(qs))

StoredTests(qs1, qs2) ==
  LET d1 == CreateTest(EmptyDB, <<"T", "1">>, <<>>)
      d2 == WithQuestions(d1, 1, qs1)
      d3 == CreateTest(d2, <<"T", "2">>, <<>>)
  IN WithQuestions(d3, 2, qs2)

\* Test 1 holds MaxQuestions questions; test 2 holds one question with two
\* options, or none.
InitDBs ==
  {StoredTests(Window(start, MaxQuestions), IF start = 2 THEN <<>> ELSE <<TmplMC2>>) :
     start \in 1..Len(Catalogue)}

\* The database after the sessions whose answers are given, each on test 1.
RECURSIVE AfterSessions(_, _)
AfterSessions(d, sessions) ==
  IF sessions = <<>> THEN d
  ELSE LET questions == GetQuestionsByTestID(d, 1)
           cs == calculateScore(questions, Head(sessions))
       IN AfterSessions(SaveTestResult(d, 1, cs.score, Len(questions), cs.correct),
                        Tail(sessions))

\* The answers of a session on the questions of test 1 (ids 1..MaxQuestions):
\* the first k of them answered, each rightly.
RightAnswer(tmpl) ==
  CASE tmpl.question_type = "true_false" -> StrTrue
    [] tmpl.question_type = "short_answer" -> <<"a">>
    [] OTHER -> tmpl.correct_answer
FirstAnswered(k) == [id \in 1..k |-> RightAnswer(Window(1, MaxQuestions)[id])]

ResultDBs ==
  {AfterSessions(StoredTests(Window(1, MaxQuestions), <<>>), sessions) :
     sessions \in SeqsUpTo({FirstAnswered(k) : k \in 0..MaxQuestions}, MaxResults)}

\* What GenerateQuestions may return: an error or up to MaxGenerated questions.
GenMC == [Text |-> <<"q">>, Type |-> "multiple_choice",
          Options |-> << <<"w">>, <<"x">>, <<"y">>, <<"z">> >>,
          CorrectAnswer |-> <<"B">>, Explanation |-> <<>>]
GenTF == [Text |-> <<"q">>, Type |-> "true_false", Options |-> <<>>,
          CorrectAnswer |-> <<"T", "r", "u", "e">>, Explanation |-> <<>>]
GenError == [err |-> TRUE, questions |-> <<>>]
GenOutcomes ==
  {GenError} \cup {[err |-> FALSE,
                     questions |-> [i \in 1..n |-> IF i % 2 = 1 THEN GenMC ELSE GenTF]] :
                     n \in 0..MaxGenerated}

\* What the user does in a run: the entries of the main menu that are opened
\* (0-based, in the order of NewMainMenuModel; 4 is Exit) and, below, the keys
\* pressed on each screen.
\* the storage of the scenarios that start from one storage
StoredAtStart(sc) ==
  IF sc = "revisit" THEN StoredTests(<<TmplMC2>>, <<>>) ELSE EmptyDB

Scenarios ==
  {"take", "results", "manage", "files", "pdf", "pdfconfig", "custom", "customopts", "customtype",
   "revisit"}
MenuEntries(sc) ==
  CASE sc = "take" -> {2, 4}
    [] sc = "results" -> {3, 4}
    [] sc = "manage" -> {2, 3, 4}
    [] sc \in {"files", "pdf", "pdfconfig"} -> {0, 4}
    [] sc \in {"custom", "customopts"} -> {1, 4}
    [] sc = "customtype" -> {1}
    [] sc = "revisit" -> {0, 2, 4}

\* In the runs that save custom questions the wizard is opened until it has
\* created its tests.
WizardDone(sc) == sc = "customopts" /\ Len(db.tests) >= MaxTests

\* A text buffer receives the keys.
TextEntry(a) ==
  CASE a.currentView = FileSelectionView -> a.fileSelection.inputMode
    [] a.currentView = PDFProcessView -> a.pdfProcess.inputMode # ""
    [] a.currentView = CustomQuestionView -> a.customQuestion.inputMode # ""
    [] a.currentView = TestTakingView ->
         /\ Len(a.currentQuestions) > 0
         /\ ~a.testTaking.showResult
         /\ a.currentQuestions[a.testTaking.currentQuestion + 1].QuestionType = "short_answer"
    [] OTHER -> FALSE

Buffer(a) ==
  CASE a.currentView = FileSelectionView -> a.fileSelection.input
    [] a.currentView = PDFProcessView -> a.pdfProcess.input
    [] a.currentView = CustomQuestionView -> a.customQuestion.input
    [] a.currentView = TestTakingView -> a.testTaking.input
    [] OTHER -> <<>>

\* The keys the user presses.
TypeKeys(sc, view) ==
  {"enter", "backspace", "esc"} \cup
  CASE view = FileSelectionView -> {"a"}
    [] view = PDFProcessView -> {"7", " "}
    [] view = CustomQuestionView -> IF sc = "custom" THEN {"a", " "} ELSE {"a"}
    [] OTHER -> {"a", " "}

CmdKeys(sc, view) ==
  CASE view = MainMenuView ->
         {"q", "ctrl+c", "esc"} \cup
         (IF sc \notin {"customopts", "customtype"} THEN {"up", "down"}
          ELSE IF mainMenu.cursor < 1 THEN {"down"} ELSE {}) \cup
         (IF mainMenu.cursor \in MenuEntries(sc) /\ ~WizardDone(sc) THEN {"enter"} ELSE {})
    [] view = TestSelectionView ->
         CASE sc = "take" -> {"up", "down", "enter", "esc"}
           [] sc = "results" -> {"up", "down", "enter", "esc"}
           [] sc = "revisit" -> {"up", "down", "enter", "d", "esc"}
           [] OTHER -> {"up", "down", "d", "r", "esc"}
    [] view = TestTakingView ->
         IF sc = "revisit" THEN {"esc"}
         ELSE {"up", "down", "enter", " ", "r", "left", "right", "esc"}
    [] view = TestResultsView -> {"up", "down", "enter", "d", "r", "b", "q", "esc"}
    [] view = FileSelectionView ->
         CASE sc = "files" -> {"up", "down", "enter", "r", "c", "esc"}
           [] sc = "pdf" -> {"down", "enter", "r", "esc"}
           [] OTHER -> {"enter", "r", "esc"}
    [] view = PDFProcessView ->
         CASE sc = "files" -> {"esc"}
           [] sc = "pdf" -> {"up", "down", "enter", "t", "b", "esc"}
           [] sc = "revisit" -> {"enter", "esc"}
           [] OTHER -> {"up", "down", "enter", "n", "e", "d", "b", "esc"}
    [] view = CustomQuestionView ->
         CASE sc = "custom" ->
                {"up", "down", "enter", "n", "d", "t", "q", "a", "e", "s", "f", "b", "esc"}
           [] sc = "customtype" -> {"up", "down", "enter", "t", "o", "esc"}
           [] OTHER -> {"up", "down", "enter", "q", "o", "a", "s", "f", "esc"}
    [] OTHER -> {"esc"}

KeysOn(view) == IF TextEntry(App) THEN TypeKeys(scenario, view) ELSE CmdKeys(scenario, view)

\* What the collaborators may answer during the event of key k.
EnvFor(a, k) ==
  LET one == {TRUE}
      none == {GenError}
  IN CASE a.currentView \in {TestSelectionView, TestResultsView} ->
            [load : BOOLEAN, op : BOOLEAN, failAt : {0}, gen : none]
       [] a.currentView = TestTakingView ->
            [load : one, op : IF a.testTaking.showResult THEN BOOLEAN ELSE one,
             failAt : {0}, gen : none]
       [] a.currentView = FileSelectionView ->
            [load : one, op : BOOLEAN, failAt : {0}, gen : none]
       [] a.currentView = PDFProcessView ->
            IF a.pdfProcess.step = 2
            THEN [load : one, op : BOOLEAN, failAt : 0..MaxGenerated, gen : GenOutcomes]
            ELSE [load : one, op : BOOLEAN, failAt : {0}, gen : none]
       [] a.currentView = CustomQuestionView ->
            IF a.customQuestion.step = 2
            THEN [load : one, op : BOOLEAN, failAt : 0..Len(a.customQuestion.questions),
                  gen : none]
            ELSE [load : one, op : one, failAt : {0}, gen : none]
       [] OTHER -> [load : one, op : one, failAt : {0}, gen : none]

\* The longest text typed into the buffer that is open: in the runs that save
\* custom questions a question text of the least length handleCustomQuestionInput
\* accepts and short answers and options, MaxInput characters otherwise.
InputBound(a) ==
  IF scenario \in {"customopts", "customtype"} /\ a.currentView = CustomQuestionView
  THEN IF a.customQuestion.inputMode = "question" THEN QuestionTextMin ELSE MaxShortInput
  ELSE MaxInput

\* The bounds of the model: the tables stay small, and text is typed into and
\* erased from buffers of at most InputBound characters.
WithinBounds(a, k, a2) ==
  /\ \/ a2.db.seq.tests <= Len(StoredAtStart(scenario).tests) + MaxTests
     \/ a2.db.seq.tests = a.db.seq.tests
  /\ Len(a2.db.results) <= MaxResults \/ Len(a2.db.results) <= Len(a.db.results)
  /\ Len(a2.customQuestion.questions) <= MaxQuestions
  /\ (TextEntry(a) /\ k \notin {"enter", "esc"}) =>
       Len(Buffer(a)) <= InputBound(a) /\ Len(Buffer(a2)) <= InputBound(a)

Apply(a) ==
  /\ currentView' = a.currentView
  /\ status' = a.status
  /\ mainMenu' = a.mainMenu
  /\ fileSelection' = a.fileSelection
  /\ pdfProcess' = a.pdfProcess
  /\ customQuestion' = a.customQuestion
  /\ testSelection' = a.testSelection
  /\ testTaking' = a.testTaking
  /\ testResults' = a.testResults
  /\ currentTest' = a.currentTest
  /\ currentQuestions' = a.currentQuestions
  /\ userAnswers' = a.userAnswers
  /\ db' = a.db

\* ------------------------------------------------------------- specification
\* NewApp
NewApp ==
  /\ currentView = MainMenuView
  /\ status = "running"
  /\ phase = "update"
  /\ mainMenu = NewMainMenuModel
  /\ fileSelection = NewFileSelectionModel
  /\ pdfProcess = NewPDFProcessModel
  /\ customQuestion = NewCustomQuestionModel
  /\ testSelection = NewTestSelectionModel
  /\ testTaking = NewTestTakingModel
  /\ testResults = NewTestResultsModel
  /\ currentTest = NIL
  /\ currentQuestions = <<>>
  /\ userAnswers = EmptyAnswers

\* The application starts on the database an earlier run has left.
Init ==
  /\ NewApp
  /\ scenario \in Scenarios
  /\ db \in CASE scenario = "take" -> InitDBs
              [] scenario \in {"results", "manage"} -> ResultDBs
              [] OTHER -> {StoredAtStart(scenario)}
  /\ probe = <<>>

\* One key message handled by App.Update.
KeyEvent ==
  /\ status = "running"
  /\ phase = "update"
  /\ \E k \in KeysOn(currentView) : \E e \in EnvFor(App, k) :
       LET a2 == Update(App, k, e)
       IN WithinBounds(App, k, a2) /\ Apply(a2)
  /\ phase' = "view"
  /\ UNCHANGED <<scenario, probe>>

KeyOnMainMenu == currentView = MainMenuView /\ KeyEvent
KeyOnFileSelection == currentView = FileSelectionView /\ KeyEvent
KeyOnPDFProcess == currentView = PDFProcessView /\ KeyEvent
KeyOnCustomQuestion == currentView = CustomQuestionView /\ KeyEvent
KeyOnTestSelection == currentView = TestSelectionView /\ KeyEvent
KeyOnTestTaking == currentView = TestTakingView /\ KeyEvent
KeyOnTestResults == currentView = TestResultsView /\ KeyEvent

\* The View call that follows every Update.
Render ==
  /\ status = "running"
  /\ phase = "view"
  /\ \E ok \in BOOLEAN : Apply(View(App, ok))
  /\ phase' = "update"
  /\ UNCHANGED <<scenario, probe>>

Next ==
  \/ KeyOnMainMenu
  \/ KeyOnFileSelection
  \/ KeyOnPDFProcess
  \/ KeyOnCustomQuestion
  \/ KeyOnTestSelection
  \/ KeyOnTestTaking
  \/ KeyOnTestResults
  \/ Render

Spec == Init /\ [][Next]_vars

\* The runs that take tests
InitTake == Init /\ scenario = "take"
NextTake == KeyOnMainMenu \/ KeyOnTestSelection \/ KeyOnTestTaking \/ Render
SpecTake == InitTake /\ [][NextTake]_vars

\* The runs that look at the stored results
InitResults == Init /\ scenario = "results"
NextResults == KeyOnMainMenu \/ KeyOnTestSelection \/ KeyOnTestResults \/ Render
SpecResults == InitResults /\ [][NextResults]_vars

\* The runs that save custom questions and create a test from them
InitRevisit == Init /\ scenario = "revisit"
NextRevisit ==
  \/ KeyOnMainMenu
  \/ KeyOnFileSelection
  \/ KeyOnPDFProcess
  \/ KeyOnTestSelection
  \/ KeyOnTestTaking
  \/ Render
SpecRevisit == InitRevisit /\ [][NextRevisit]_vars

InitCustom == Init /\ scenario = "customopts"
NextCustom == KeyOnMainMenu \/ KeyOnCustomQuestion \/ Render
SpecCustom == InitCustom /\ [][NextCustom]_vars

\* ------------------------------------------------------------- pure functions
\* calculateScore and getGrade applied to enumerated arguments: probe holds the
\* arguments and, once the function has been applied, its result.
ScoredQuestion(id, correctAnswer) ==
  [ID |-> id, TestID |-> 1, QuestionText |-> <<"q">>, QuestionType |-> "short_answer",
   Options |-> <<>>, CorrectAnswer |-> correctAnswer, Explanation |-> <<>>]

ScoredLists ==
  UNION {{[i \in 1..n |-> ScoredQuestion(i, c[i])] : c \in [1..n -> {<<"B">>, <<"A", " ">>}]} :
           n \in 0..MaxScored}

\* every question unanswered (<<>> below) or answered "B", "a" or "x"
ScoredAnswers(n) ==
  {[id \in {i \in 1..n : g[i] # <<>>} |-> g[id]] :
     g \in [1..n -> {<<>>, <<"B">>, <<"a">>, <<"x">>}]}

Percentages == {Rat(k, 10) : k \in 0..1000}

NoScore == [correct |-> 0, score |-> RatInt(0)]

\* The storage after a session on test testID has been saved: its result and
\* one answer for each of the questions of that test.
SessionSaved(d, testID) ==
  LET qs == GetQuestionsByTestID(d, testID)
      d1 == SaveTestResult(d, testID, RatInt(0), Len(qs), 0)
      saved[i \in 0..Len(qs)] ==
        IF i = 0 THEN d1
        ELSE SaveQuestionAnswer(saved[i - 1], d1.seq.results, qs[i].ID, <<"x">>, FALSE)
  IN saved[Len(qs)]

RECURSIVE SessionsSaved(_, _)
SessionsSaved(d, testIDs) ==
  IF testIDs = <<>> THEN d
  ELSE SessionsSaved(SessionSaved(d, Head(testIDs)), Tail(testIDs))

\* tests 1 (MaxQuestions questions) and 2 (one question) with up to MaxSessions
\* sessions saved on them in any order
SessionStorages ==
  {SessionsSaved(StoredTests(Window(1, MaxQuestions), <<TmplMC2>>), testIDs) :
     testIDs \in SeqsUpTo({1, 2}, MaxSessions)}

\* DeleteTest and DeleteTestResult applied to a storage: every id that may be
\* stored and the next one, every statement that may fail
DeleteProbes(d) ==
  {[kind |-> "DeleteTest", id |-> id, failAt |-> failAt, before |-> d, done |-> FALSE,
    err |-> FALSE, states |-> <<>>] : id \in 1..3, failAt \in 0..5}
  \cup {[kind |-> "DeleteTestResult", id |-> id, failAt |-> failAt, before |-> d,
         done |-> FALSE, err |-> FALSE, states |-> <<>>] :
          id \in 1..(MaxSessions + 1), failAt \in 0..3}

\* A text of n characters "a" with character c at the positions of P (from 0).
Marked(n, P, c) == [i \in 1..n |-> IF i - 1 \in P THEN c ELSE "a"]

\* texts without a marked character, and the longest text with one marked
\* character or with two spaces
SummaryTexts ==
  {Marked(n, {}, "a") : n \in 0..MaxText}
  \cup {Marked(MaxText, {p}, c) : p \in 0..(MaxText - 1), c \in {" ", ".", "\n", ","}}
  \cup {Marked(MaxText, {p, q}, " ") : p, q \in 0..(MaxText - 1)}

\* lengths around the ends of the text and around the length of the window
SummaryLengths(text) ==
  {m \in {0, 1, Len(text) - 1, Len(text), Len(text) + 1,
          SummaryWindow, SummaryWindow + 1, SummaryWindow + 2} : m >= 0}

SummaryProbes ==
  {[kind |-> "GetTextSummary", text |-> p[1], maxLength |-> p[2], done |-> FALSE,
    out |-> <<>>] :
     p \in {p \in SummaryTexts \X (0..(MaxText + SummaryWindow + 2)) :
              p[2] \in SummaryLengths(p[1])}}

HelloWorld == <<"H", "e", "l", "l", "o", " ", "w", "o", "r", "l", "d">>

PageTexts ==
  {HelloWorld, <<"A">>, <<>>, <<" ", "\n", " ">>,
   <<" ", "a", "b", " ", "\n", "a", "b", "c">>,
   <<"a", " ", "b", "\n", "\n", "\t", "c", "d", "e", " ", "\n", "f", "g">>}

\* what a page answers: a null page, a failing GetPlainText, or its text
Pages ==
  {[null |-> FALSE, err |-> FALSE, text |-> t] : t \in PageTexts}
  \cup {[null |-> TRUE, err |-> FALSE, text |-> <<>>],
        [null |-> FALSE, err |-> TRUE, text |-> <<>>]}

ExtractProbes ==
  {[kind |-> "ExtractText", doc |-> [opens |-> o, pages |-> ps], done |-> FALSE,
    out |-> [text |-> <<>>, err |-> ""]] : o \in BOOLEAN, ps \in SeqsUpTo(Pages, MaxPages)}

InitPure ==
  /\ NewApp
  /\ scenario = "pure"
  /\ \/ /\ db = EmptyDB
        /\ probe \in {[kind |-> "score", questions |-> qs, answers |-> ans,
                       percentage |-> RatInt(0), done |-> FALSE, score |-> NoScore,
                       grade |-> ""] :
                        qs \in ScoredLists, ans \in ScoredAnswers(MaxScored)}
                     \cup {[kind |-> "grade", questions |-> <<>>, answers |-> EmptyAnswers,
                            percentage |-> p, done |-> FALSE, score |-> NoScore,
                            grade |-> ""] :
                             p \in Percentages}
     \/ /\ db \in SessionStorages
        /\ probe \in DeleteProbes(db)
     \/ /\ db = EmptyDB
        /\ probe \in SummaryProbes \cup ExtractProbes

ApplyCalculateScore ==
  /\ probe.kind = "score" /\ ~probe.done
  /\ probe' = [probe EXCEPT !.done = TRUE,
                            !.score = calculateScore(probe.questions, probe.answers)]
  /\ UNCHANGED <<currentView, status, phase, mainMenu, fileSelection, pdfProcess,
                 customQuestion, testSelection, testTaking, testResults, currentTest,
                 currentQuestions, userAnswers, db, scenario>>

ApplyGetGrade ==
  /\ probe.kind = "grade" /\ ~probe.done
  /\ probe' = [probe EXCEPT !.done = TRUE, !.grade = getGrade(probe.percentage)]
  /\ UNCHANGED <<currentView, status, phase, mainMenu, fileSelection, pdfProcess,
                 customQuestion, testSelection, testTaking, testResults, currentTest,
                 currentQuestions, userAnswers, db, scenario>>

ApplyDeleteTest ==
  /\ probe.kind = "DeleteTest" /\ ~probe.done
  /\ LET out == DeleteTestTx(db, probe.id, probe.failAt)
     IN /\ db' = out.db
        /\ probe' = [probe EXCEPT !.done = TRUE, !.err = out.err, !.states = out.states]
  /\ UNCHANGED <<currentView, status, phase, mainMenu, fileSelection, pdfProcess,
                 customQuestion, testSelection, testTaking, testResults, currentTest,
                 currentQuestions, userAnswers, scenario>>

ApplyDeleteTestResult ==
  /\ probe.kind = "DeleteTestResult" /\ ~probe.done
  /\ LET out == DeleteTestResultTx(db, probe.id, probe.failAt)
     IN /\ db' = out.db
        /\ probe' = [probe EXCEPT !.done = TRUE, !.err = out.err, !.states = out.states]
  /\ UNCHANGED <<currentView, status, phase, mainMenu, fileSelection, pdfProcess,
                 customQuestion, testSelection, testTaking, testResults, currentTest,
                 currentQuestions, userAnswers, scenario>>

ApplyGetTextSummary ==
  /\ probe.kind = "GetTextSummary" /\ ~probe.done
  /\ probe' = [probe EXCEPT !.done = TRUE,
                            !.out = GetTextSummary(probe.text, probe.maxLength)]
  /\ UNCHANGED <<currentView, status, phase, mainMenu, fileSelection, pdfProcess,
                 customQuestion, testSelection, testTaking, testResults, currentTest,
                 currentQuestions, userAnswers, db, scenario>>

ApplyExtractText ==
  /\ probe.kind = "ExtractText" /\ ~probe.done
  /\ probe' = [probe EXCEPT !.done = TRUE, !.out = ExtractText(probe.doc)]
  /\ UNCHANGED <<currentView, status, phase, mainMenu, fileSelection, pdfProcess,
                 customQuestion, testSelection, testTaking, testResults, currentTest,
                 currentQuestions, userAnswers, db, scenario>>

NextPure ==
  \/ ApplyCalculateScore
  \/ ApplyGetGrade
  \/ ApplyDeleteTest
  \/ ApplyDeleteTestResult
  \/ ApplyGetTextSummary
  \/ ApplyExtractText
SpecPure == InitPure /\ [][NextPure]_vars

\* ------------------------------------------------------------- properties
\* The step is App.Update handling key k, the collaborators answering e.
Handles(k, e) ==
  /\ status = "running"
  /\ phase = "update"
  /\ phase' = "view"
  /\ App' = Update(App, k, e)

TestTakingInitial(tt) ==
  /\ tt.currentQuestion = 0 /\ tt.input = <<>> /\ tt.cursor = 0
  /\ ~tt.showResult /\ ~tt.reviewMode /\ tt.reviewQuestion = 0

CustomQuestionInitial(cq) ==
  cq.step = 0 /\ cq.inputMode = "" /\ cq.input = <<>> /\ cq.cursor = 0

\* C2: a screen left by Esc has lost its in-progress sub-state: whenever the
\* test-taking screen or the custom-question wizard is entered, its step, input
\* mode, input buffer, cursors and sub-mode flags have their initial values.
\* (Both screens are left without being reset by Esc only.)
C2_EntryFindsInitialSubState ==
  [][/\ (currentView # TestTakingView /\ currentView' = TestTakingView)
          => TestTakingInitial(testTaking')
     /\ (currentView # CustomQuestionView /\ currentView' = CustomQuestionView)
          => CustomQuestionInitial(customQuestion')]_vars

\* C3: in the test-taking screen the show-result sub-mode is active only if the
\* last question of the active list has been answered in the current session.
C3_ShowResultOnlyAfterLastAnswer ==
  (currentView = TestTakingView /\ Len(currentQuestions) > 0 /\ testTaking.showResult)
    => currentQuestions[Len(currentQuestions)].ID \in DOMAIN userAnswers

InResultSubMode ==
  /\ currentView = TestTakingView
  /\ Len(currentQuestions) > 0
  /\ testTaking.showResult
  /\ ~testTaking.reviewMode

SessionReset ==
  /\ currentView' = MainMenuView
  /\ testTaking' = NewTestTakingModel
  /\ currentTest' = NIL
  /\ currentQuestions' = <<>>
  /\ userAnswers' = EmptyAnswers

\* C4 as claimed: Enter in the result sub-mode resets the session state and
\* makes the main menu the active screen whether SaveTestResult succeeds or fails.
C4_EnterAlwaysResets ==
  [][\A e \in EnvFor(App, "enter") :
       (InResultSubMode /\ Handles("enter", e)) => SessionReset]_vars

\* C4, amended: Enter in the result sub-mode resets the session state and makes
\* the main menu the active screen when SaveTestResult succeeds; when it fails
\* the error message is set and the screen, the result sub-mode, the current
\* test, the question list, the answer map and the database stay as they are.
C4_EnterResetsOnSuccessOnly ==
  [][\A e \in EnvFor(App, "enter") :
       (InResultSubMode /\ Handles("enter", e)) =>
         IF e.op
         THEN SessionReset /\ Len(db'.results) = Len(db.results) + 1
         ELSE /\ testTaking' = [testTaking EXCEPT !.errorMsg = "Failed to save results"]
              /\ UNCHANGED <<currentView, currentTest, currentQuestions, userAnswers, db>>]_vars

\* SaveTestResult has failed and the result sub-mode is still showing.
C4_Witness ==
  /\ InResultSubMode
  /\ phase = "view"
  /\ testTaking.errorMsg = "Failed to save results"
  /\ DOMAIN userAnswers # {}

\* The answer matches the correct answer, case and surrounding blanks aside.
ProbeMatches(correctAnswer, answer) ==
  \/ correctAnswer = <<"B">> /\ answer = <<"B">>
  \/ correctAnswer = <<"A", " ">> /\ answer = <<"a">>

ProbeCorrect ==
  Cardinality({i \in 1..Len(probe.questions) :
                 /\ probe.questions[i].ID \in DOMAIN probe.answers
                 /\ ProbeMatches(probe.questions[i].CorrectAnswer,
                                 probe.answers[probe.questions[i].ID])})

\* C5: calculateScore returns as correct the number of questions whose id is in
\* the answer map with an answer matching the correct answer, and as score
\* correct/total*100 with total the number of questions (0 when there is none);
\* so 0 <= correct <= total and 0 <= score <= 100.
C5_CalculateScore ==
  (probe.kind = "score" /\ probe.done) =>
    LET total == Len(probe.questions)
        correct == probe.score.correct
        score == probe.score.score
    IN /\ correct = ProbeCorrect
       /\ 0 <= correct /\ correct <= total
       /\ score.den > 0
       /\ IF total = 0 THEN score.num = 0
          ELSE score.num * total = 100 * correct * score.den
       /\ 0 <= score.num /\ score.num <= 100 * score.den

\* 4 questions, 3 answered correctly and 1 unanswered: correct = 3, score = 75.
C5_Witness ==
  /\ probe.kind = "score" /\ probe.done
  /\ Len(probe.questions) = 4
  /\ DOMAIN probe.answers = {1, 2, 3}
  /\ ProbeCorrect = 3
  /\ probe.score = [correct |-> 3, score |-> [num |-> 75, den |-> 1]]

\* The row of test_results a loaded result comes from.
RowOf(result) == CHOOSE row \in Range(db.results) : row.id = result.ID

ShownAsStored(result) ==
  LET row == RowOf(result)
      shown == shownResult(result)
  IN /\ shown.correct = row.correct_answers
     /\ shown.total = row.total_questions
     /\ shown.percentage = row.score
     /\ shown.grade = getGrade(row.score)

\* C6: every result of the results list, and the one of the detail sub-view, is
\* shown with the stored count of correct answers out of the stored total, the
\* stored percentage score and the grade of that percentage.
C6_ResultsShownAsStored ==
  (currentView = TestResultsView /\ phase = "update") =>
    /\ \A i \in 1..Len(testResults.results) :
         (\E row \in Range(db.results) : row.id = testResults.results[i].ID)
           => ShownAsStored(testResults.results[i])
    /\ (testResults.viewMode = "detail" /\ testResults.selectedResult # NIL
        /\ \E row \in Range(db.results) : row.id = testResults.selectedResult.ID)
         => ShownAsStored(testResults.selectedResult)

\* C7: getGrade gives A from 90 up, B from 80 up to 90, C from 70 up to 80, D
\* from 60 up to 70 and F below; 90, 80, 70 and 60 get the higher grade.
C7_GetGrade ==
  (probe.kind = "grade" /\ probe.done) =>
    LET n == probe.percentage.num
        d == probe.percentage.den
    IN /\ probe.grade = "A" <=> n >= 90 * d
       /\ probe.grade = "B" <=> (n >= 80 * d /\ n < 90 * d)
       /\ probe.grade = "C" <=> (n >= 70 * d /\ n < 80 * d)
       /\ probe.grade = "D" <=> (n >= 60 * d /\ n < 70 * d)
       /\ probe.grade = "F" <=> n < 60 * d

\* The grade of the boundary value 80 has been computed.
C7_Witness ==
  probe.kind = "grade" /\ probe.done /\ probe.percentage = RatInt(80) /\ probe.grade = "B"

\* The rows of test_results written by the step.
NewResults == Range(db'.results) \ Range(db.results)

\* C8: a row of test_results is written only by a step of the result sub-mode
\* of a test-taking session: one row, holding the id of the session's test, the
\* length of its question list and the count and score calculateScore gives for
\* its answer map; that step ends the session, and a session begins only by
\* entering the test-taking screen from the test selection.
C8_OneResultPerSession ==
  [][/\ NewResults # {} =>
          /\ InResultSubMode
          /\ Cardinality(NewResults) = 1
          /\ \A row \in NewResults :
               LET cs == calculateScore(currentQuestions, userAnswers)
               IN /\ row.test_id = currentTest.ID
                  /\ \A q \in Range(currentQuestions) : q.TestID = row.test_id
                  /\ row.total_questions = Len(currentQuestions)
                  /\ row.correct_answers = cs.correct
                  /\ row.score = cs.score
          /\ currentView' = MainMenuView
          /\ currentQuestions' = <<>>
     /\ (currentView # TestTakingView /\ currentView' = TestTakingView)
          => currentView = TestSelectionView]_vars

\* A session with some but not all answers right has been saved.
C8_Witness ==
  /\ scenario = "take"
  /\ currentView = MainMenuView
  /\ \E row \in Range(db.results) :
       row.correct_answers > 0 /\ row.correct_answers < row.total_questions

\* C9: in the test-taking screen the question cursor stays within the question
\* list, and an event leaves it as it is or moves it forward by one, the latter
\* only when an answer to the question it was on has just been recorded.
C9_CursorMovesForwardByOne ==
  /\ [](currentView = TestTakingView =>
          (0 <= testTaking.currentQuestion
           /\ testTaking.currentQuestion < Len(currentQuestions)))
  /\ [][(currentView = TestTakingView /\ currentView' = TestTakingView) =>
          \/ testTaking'.currentQuestion = testTaking.currentQuestion
          \/ /\ testTaking'.currentQuestion = testTaking.currentQuestion + 1
             /\ LET id == currentQuestions[testTaking.currentQuestion + 1].ID
                IN /\ id \in DOMAIN userAnswers'
                   /\ \A other \in DOMAIN userAnswers :
                        other # id => other \in DOMAIN userAnswers'
                                      /\ userAnswers'[other] = userAnswers[other]
                   /\ currentQuestions' = currentQuestions]_vars

\* The cursor has moved on to the last question.
C9_Witness ==
  /\ currentView = TestTakingView
  /\ ~testTaking.showResult
  /\ testTaking.currentQuestion = Len(currentQuestions) - 1
  /\ testTaking.currentQuestion > 0

\* An answer valid for the type of its question.
ValidAnswer(q, answer) ==
  CASE q.QuestionType = "multiple_choice" ->
         \E i \in 1..4 : i <= Len(q.Options) /\ answer = <<<<"A">>, <<"B">>, <<"C">>, <<"D">>>>[i]
    [] q.QuestionType = "true_false" ->
         answer \in {<<"t", "r", "u", "e">>, <<"f", "a", "l", "s", "e">>}
    [] q.QuestionType = "short_answer" ->
         Len(answer) > 0 /\ answer[1] # " " /\ answer[Len(answer)] # " "
    [] OTHER -> FALSE

\* C10: every entry of the answer map belongs to a question of the active list
\* and is valid for its type (a letter A-D below the number of options, "true"
\* or "false", a non-empty text without surrounding blanks); the letter recorded
\* for a multiple-choice question is the one at the option cursor.
C10_AnswersValid ==
  /\ [](\A id \in DOMAIN userAnswers :
          \E i \in 1..Len(currentQuestions) :
            currentQuestions[i].ID = id /\ ValidAnswer(currentQuestions[i], userAnswers[id]))
  /\ [][(currentView = TestTakingView /\ userAnswers' # userAnswers
         /\ currentQuestions' = currentQuestions) =>
          LET q == currentQuestions[testTaking.currentQuestion + 1]
          IN /\ q.ID \in DOMAIN userAnswers'
             /\ q.QuestionType = "multiple_choice" =>
                  /\ testTaking.cursor < Len(q.Options)
                  /\ userAnswers'[q.ID] = <<<<"A">>, <<"B">>, <<"C">>, <<"D">>>>[testTaking.cursor + 1]]_vars

\* The fourth option and a typed answer have been recorded.
C10_Witness ==
  /\ currentView = TestTakingView
  /\ \E id \in DOMAIN userAnswers : userAnswers[id] = <<"D">>
  /\ \E id \in DOMAIN userAnswers : userAnswers[id] = <<"a", "a">>

\* The test-taking screen shows question number testTaking.currentQuestion of
\* one of the given types and waits for its answer.
Answering(types) ==
  /\ currentView = TestTakingView
  /\ Len(currentQuestions) > 0
  /\ ~testTaking.showResult
  /\ testTaking.currentQuestion < Len(currentQuestions)
  /\ currentQuestions[testTaking.currentQuestion + 1].QuestionType \in types

\* The step has recorded an answer to the current question and moved on, to
\* the next question or, from the last one, to the result sub-mode.
RecordedAndAdvanced ==
  /\ currentQuestions[testTaking.currentQuestion + 1].ID \in DOMAIN userAnswers'
  /\ IF testTaking.currentQuestion < Len(currentQuestions) - 1
     THEN testTaking'.currentQuestion = testTaking.currentQuestion + 1
     ELSE testTaking'.showResult

\* C11: in the test-taking screen, while a multiple_choice or true_false
\* question waits for its answer, Enter and Space each record an answer to that
\* question and advance to the next question or to the result sub-mode.
C11_ConfirmRecordsAndAdvances ==
  [][\A k \in {"enter", " "} : \A e \in EnvFor(App, k) :
       (Answering({"multiple_choice", "true_false"}) /\ Handles(k, e))
         => RecordedAndAdvanced]_vars

\* C12: whenever the review sub-mode of the test-taking screen is active, the
\* review index is at least 0 and less than the number of questions of the
\* active list.
C12_ReviewIndexInRange ==
  (currentView = TestTakingView /\ testTaking.showResult /\ testTaking.reviewMode)
    => (0 <= testTaking.reviewQuestion
        /\ testTaking.reviewQuestion < Len(currentQuestions))

\* The question types enabled in the PDF configuration.
EnabledTypes(pp) == {t \in DOMAIN pp.questionTypes : pp.questionTypes[t]}

NextInCycle(t) ==
  CASE t = "multiple_choice" -> "true_false"
    [] t = "true_false" -> "short_answer"
    [] t = "short_answer" -> "multiple_choice"

\* The configure step of the PDF screen waits for a command key.
ConfigureStep ==
  /\ currentView = PDFProcessView
  /\ ~pdfProcess.loading
  /\ pdfProcess.inputMode = ""
  /\ pdfProcess.step = 1

\* C13: exactly one of the three question types of the PDF configuration is
\* enabled in every state, and a toggle (key t on the question-types line of
\* the configure step) enables the successor of the enabled type in the cycle
\* multiple_choice -> true_false -> short_answer -> multiple_choice; nothing
\* else changes the enabled type.
C13_OneTypeEnabledInCycle ==
  /\ [](Cardinality(EnabledTypes(pdfProcess)) = 1)
  /\ [][\A e \in EnvFor(App, "t") :
          (ConfigureStep /\ pdfProcess.cursor = 1 /\ Handles("t", e)) =>
            \A t \in EnabledTypes(pdfProcess) :
              EnabledTypes(pdfProcess') = {NextInCycle(t)}]_vars
  /\ [][EnabledTypes(pdfProcess') # EnabledTypes(pdfProcess) =>
          (ConfigureStep /\ pdfProcess.cursor = 1)]_vars

\* Two toggles have enabled short_answer.
C13_Witness ==
  /\ currentView = PDFProcessView
  /\ pdfProcess.step = 1
  /\ EnabledTypes(pdfProcess) = {"short_answer"}

\* The generate step of the PDF screen waits for a command key.
GenerateStep ==
  /\ currentView = PDFProcessView
  /\ ~pdfProcess.loading
  /\ pdfProcess.inputMode = ""
  /\ pdfProcess.step = 2

\* C14: when the generate step calls GenerateQuestions (Enter or Space), the
\* count it passes is the number confirmed in the number-of-questions field
\* and lies between 1 and 50.
C14_GenerationCountInRange ==
  [][\A k \in {"enter", " "} : \A e \in EnvFor(App, k) :
       (GenerateStep /\ Handles(k, e)) =>
         /\ generateCall(App).numQuestions = Atoi(TrimSpace(pdfProcess.numQuestions)).val
         /\ generateCall(App).numQuestions >= 1
         /\ generateCall(App).numQuestions <= 50]_vars


\* ---- custom question wizard ----

NonBlank(str) == \E i \in 1..Len(str) : str[i] \notin {" ", "\t", "\n", "\r"}

\* the wizard is on its question-creation step and no field is being edited
QuestionCreationStep ==
  /\ currentView = CustomQuestionView
  /\ customQuestion.step = 1
  /\ customQuestion.inputMode = ""

Acceptable(cur) ==
  /\ NonBlank(cur.text)
  /\ NonBlank(cur.correctAnswer)
  /\ cur.qType = "multiple_choice" =>
       Cardinality({i \in 1..Len(cur.options) : NonBlank(cur.options[i])}) >= 2

\* C15: 'save question' (s) appends the in-progress question to the saved list
\* and resets the in-progress buffer exactly when its text is not blank, its
\* correct answer is not blank and, for multiple_choice, at least 2 of the 4
\* option slots are not blank; otherwise it sets a validation error and leaves
\* the saved list and the in-progress buffer as they were.
C15_SaveQuestionIffAcceptable ==
  [][\A e \in EnvFor(App, "s") :
       (QuestionCreationStep /\ Handles("s", e)) =>
         LET cur == customQuestion.currentQuestion
         IN IF Acceptable(cur)
            THEN /\ Len(customQuestion'.questions) = Len(customQuestion.questions) + 1
                 /\ SubSeq(customQuestion'.questions, 1, Len(customQuestion.questions))
                      = customQuestion.questions
                 /\ LET saved == customQuestion'.questions[Len(customQuestion'.questions)]
                    IN /\ saved.Text = cur.text
                       /\ saved.Type = cur.qType
                       /\ saved.Options = cur.options
                       /\ saved.CorrectAnswer = cur.correctAnswer
                       /\ saved.Explanation = cur.explanation
                 /\ customQuestion'.currentQuestion =
                      [qType |-> cur.qType, text |-> <<>>, correctAnswer |-> <<>>,
                       explanation |-> <<>>,
                       options |-> IF cur.qType = "multiple_choice" THEN FourEmpty ELSE <<>>]
            ELSE /\ customQuestion'.questions = customQuestion.questions
                 /\ customQuestion'.currentQuestion = cur
                 /\ customQuestion'.errorMsg # ""]_vars

\* a question with exactly 2 of its 4 options filled in was saved, and the next
\* one, with 1 option filled in, has just been rejected
C15_Witness ==
  /\ currentView = CustomQuestionView
  /\ phase = "view"
  /\ Len(customQuestion.questions) = 1
  /\ customQuestion.questions[1].Type = "multiple_choice"
  /\ Cardinality({i \in 1..4 : NonBlank(customQuestion.questions[1].Options[i])}) = 2
  /\ customQuestion.errorMsg = "Multiple choice questions need at least 2 options"
  /\ Cardinality({i \in 1..4 : NonBlank(customQuestion.currentQuestion.options[i])}) = 1


\* C16: the wizard is at its review step only while the saved list is not empty:
\* 'finish' (f) with no saved question stays on the question-creation step with
\* an error, and no step taken in the wizard creates a test while the saved
\* list is empty.
C16_ReviewOnlyWithQuestions ==
  /\ [](customQuestion.step = 2 => Len(customQuestion.questions) > 0)
  /\ [][\A e \in EnvFor(App, "f") :
          (QuestionCreationStep /\ Len(customQuestion.questions) = 0 /\ Handles("f", e)) =>
            /\ currentView' = CustomQuestionView
            /\ customQuestion'.step = 1
            /\ customQuestion'.errorMsg # ""]_vars
  /\ [][(currentView = CustomQuestionView /\ db'.tests # db.tests) =>
          Len(customQuestion.questions) > 0]_vars

\* the wizard has refused to finish with no saved question
C16_Witness ==
  /\ currentView = CustomQuestionView
  /\ phase = "view"
  /\ customQuestion.step = 1
  /\ customQuestion.questions = <<>>
  /\ customQuestion.errorMsg = "Create at least one question before finishing"


\* ---- creation of a test with its questions ----

\* the stored test row holds name and description
HoldsTest(row, name, description) ==
  row.name = name /\ row.description = description

\* the stored question row holds question q of test testID
HoldsQuestion(row, testID, q) ==
  /\ row.test_id = testID
  /\ row.question_text = q.Text
  /\ row.question_type = q.Type
  /\ row.correct_answer = q.CorrectAnswer
  /\ row.explanation = q.Explanation
  /\ DecodeOptions(row.options) = q.Options

\* storage d2 is storage d1 with one more test (name, description) and with the
\* first n questions of qs, in their order, as the questions of that test
CreatedWith(d1, d2, name, description, qs, n) ==
  /\ Len(d2.tests) = Len(d1.tests) + 1
  /\ SubSeq(d2.tests, 1, Len(d1.tests)) = d1.tests
  /\ HoldsTest(d2.tests[Len(d2.tests)], name, description)
  /\ Len(d2.questions) = Len(d1.questions) + n
  /\ SubSeq(d2.questions, 1, Len(d1.questions)) = d1.questions
  /\ \A j \in 1..n :
       HoldsQuestion(d2.questions[Len(d1.questions) + j], d2.tests[Len(d2.tests)].id, qs[j])

ReviewStep ==
  /\ currentView = CustomQuestionView
  /\ customQuestion.step = 2
  /\ customQuestion.inputMode = ""

\* C17: in both creation flows (confirm on the custom wizard's review step, and
\* generate on the PDF flow) the test is created first and the questions are
\* inserted one by one in list order; when the k-th insert fails no further
\* insert is made, an error is shown, the screen stays the active one, and
\* storage keeps the new test with exactly the first k-1 questions.
C17_FailedInsertKeepsPrefix ==
  [][\A key \in {"enter", " "} : \A e \in EnvFor(App, key) :
       /\ (ReviewStep /\ e.op /\ e.failAt \in 1..Len(customQuestion.questions)
             /\ Handles(key, e)) =>
            /\ CreatedWith(db, db', customQuestion.testName, customQuestion.testDesc,
                           customQuestion.questions, e.failAt - 1)
            /\ customQuestion'.errorMsg # ""
            /\ currentView' = CustomQuestionView
       /\ (GenerateStep /\ ~e.gen.err /\ e.op /\ e.failAt \in 1..Len(e.gen.questions)
             /\ Handles(key, e)) =>
            /\ CreatedWith(db, db', pdfProcess.testName, pdfProcess.testDesc,
                           e.gen.questions, e.failAt - 1)
            /\ pdfProcess'.errorMsg # ""
            /\ currentView' = PDFProcessView]_vars

\* the second insert of a test has failed: the test is stored with one question
C17_Witness ==
  /\ phase = "view"
  /\ Len(db.tests) > 0
  /\ Cardinality({j \in 1..Len(db.questions) :
                    db.questions[j].test_id = db.tests[Len(db.tests)].id}) = 1
  /\ \/ currentView = CustomQuestionView /\ Len(customQuestion.questions) = 2
          /\ customQuestion.errorMsg = "Failed to save question"
     \/ currentView = PDFProcessView /\ pdfProcess.errorMsg = "Failed to save question"


ListUsed(e) ==
  IF Len(testSelection.tests) = 0 THEN loadTests(App, e.load).testSelection.tests
  ELSE testSelection.tests

PersistedIDs == {db.tests[j].id : j \in 1..Len(db.tests)}

\* C19: the list that select (Enter, Space) and delete (d) act upon on
\* TestSelection holds exactly the tests that storage holds, so a test created
\* since the previous visit is in it without a manual refresh.
C19_ListUsedIsPersisted ==
  [][\A k \in {"enter", " ", "d"} : \A e \in EnvFor(App, k) :
       (currentView = TestSelectionView /\ e.load /\ Handles(k, e)) =>
         {ListUsed(e)[j].ID : j \in 1..Len(ListUsed(e))} = PersistedIDs]_vars


\* C20: deleting the selected test on TestSelection removes exactly that test
\* from storage and from the in-memory list and keeps the order of the others;
\* when the storage delete fails the in-memory list and the cursor are unchanged
\* and an error is set.
C20_DeleteRemovesSelectedOnly ==
  [][\A e \in EnvFor(App, "d") :
       (currentView = TestSelectionView /\ Len(testSelection.tests) > 0 /\ Handles("d", e)) =>
         LET tests == testSelection.tests
             at == testSelection.cursor + 1
             Others(row) == row.id # tests[at].ID
         IN IF e.op
            THEN /\ db'.tests = SelectSeq(db.tests, Others)
                 /\ testSelection'.tests =
                      [j \in 1..(Len(tests) - 1) |-> IF j < at THEN tests[j] ELSE tests[j + 1]]
            ELSE /\ db' = db
                 /\ testSelection'.tests = tests
                 /\ testSelection'.cursor = testSelection.cursor
                 /\ testSelection'.errorMsg # ""]_vars

\* a test that is neither the oldest nor the newest one has been deleted
C20_Witness ==
  /\ currentView = TestSelectionView
  /\ phase = "view"
  /\ PersistedIDs = {1, 3}
  /\ Len(testSelection.tests) = 2
  /\ testSelection.tests[1].ID = 3
  /\ testSelection.tests[2].ID = 1


\* ---- test results ----

\* a result is targeted by delete: the selected one in detail mode, the one
\* under the cursor in list mode
ResultTargeted ==
  /\ currentView = TestResultsView
  /\ \/ testResults.viewMode = "detail" /\ testResults.selectedResult # NIL
     \/ testResults.viewMode = "list" /\ Len(testResults.results) > 0

TargetedID ==
  IF testResults.viewMode = "detail" THEN testResults.selectedResult.ID
  ELSE testResults.results[testResults.cursor + 1].ID

\* C21: on TestResults a successful delete (d) from the list or from the detail
\* sub-view removes the targeted result from storage, reloads the list so that
\* the result is no longer in it, clears the selection and leaves the screen in
\* list mode; a failed delete leaves view mode, selection and list unchanged.
C21_DeleteResultReloadsList ==
  [][\A e \in EnvFor(App, "d") :
       (ResultTargeted /\ Handles("d", e)) =>
         IF e.op
         THEN /\ \A j \in 1..Len(db'.results) : db'.results[j].id # TargetedID
              /\ \A j \in 1..Len(testResults'.results) :
                   testResults'.results[j].ID # TargetedID
              /\ testResults'.selectedResult = NIL
              /\ testResults'.viewMode = "list"
         ELSE /\ db' = db
              /\ testResults'.viewMode = testResults.viewMode
              /\ testResults'.selectedResult = testResults.selectedResult
              /\ testResults'.results = testResults.results]_vars

\* the same, for deletes after which storage can be read
C21_DeleteResultWhenReloadSucceeds ==
  [][\A e \in EnvFor(App, "d") :
       (ResultTargeted /\ e.load /\ Handles("d", e)) =>
         IF e.op
         THEN /\ \A j \in 1..Len(db'.results) : db'.results[j].id # TargetedID
              /\ testResults'.results = SeqMap(ResultData, GetAllTestResults(db'))
              /\ \A j \in 1..Len(testResults'.results) :
                   testResults'.results[j].ID # TargetedID
              /\ testResults'.selectedResult = NIL
              /\ testResults'.viewMode = "list"
         ELSE /\ db' = db
              /\ testResults'.viewMode = testResults.viewMode
              /\ testResults'.selectedResult = testResults.selectedResult
              /\ testResults'.results = testResults.results]_vars


\* ---- storage: DeleteTest and DeleteTestResult ----

IDsOf(rows) == {rows[j].id : j \in 1..Len(rows)}
QuestionsOfTest(d, t) == {d.questions[j].id : j \in {n \in 1..Len(d.questions) : d.questions[n].test_id = t}}
ResultsOfTest(d, t) == {d.results[j].id : j \in {n \in 1..Len(d.results) : d.results[n].test_id = t}}

\* every row that refers to another row refers to a stored one
Referenced(d) ==
  /\ \A j \in 1..Len(d.questions) : d.questions[j].test_id \in IDsOf(d.tests)
  /\ \A j \in 1..Len(d.results) : d.results[j].test_id \in IDsOf(d.tests)
  /\ \A j \in 1..Len(d.answers) :
       /\ d.answers[j].question_id \in IDsOf(d.questions)
       /\ d.answers[j].result_id \in IDsOf(d.results)

C23_DeletesAllOrNothing ==
  (probe.kind \in {"DeleteTest", "DeleteTestResult"} /\ probe.done) =>
    /\ probe.err <=> probe.failAt # 0
    /\ probe.err => db = probe.before
    /\ ~probe.err =>
         /\ db = probe.states[Len(probe.states)]
         /\ db = IF probe.kind = "DeleteTest" THEN DeleteTest(probe.before, probe.id)
                 ELSE DeleteTestResult(probe.before, probe.id)
    /\ \A j \in 1..Len(probe.states) : Referenced(probe.states[j])

\* the commit of a DeleteTest that had deleted rows failed
C23_Witness ==
  /\ probe.kind = "DeleteTest" /\ probe.done /\ probe.err
  /\ probe.failAt = 5
  /\ Len(probe.states) = 4
  /\ probe.id \notin IDsOf(probe.states[4].tests)
  /\ probe.id \in IDsOf(db.tests)
  /\ Len(db.answers) > Len(probe.states[4].answers)


\* ---- text input ----

\* the input being confirmed in the custom wizard does not pass its validation
CustomInputInvalid ==
  /\ currentView = CustomQuestionView
  /\ customQuestion.inputMode \in {"test_name", "question", "answer", "option"}
  /\ Len(TrimSpace(customQuestion.input)) <
       (IF customQuestion.inputMode = "question" THEN QuestionTextMin ELSE 1)

\* the input being confirmed on the PDF configure step does not pass its validation
PDFInputInvalid ==
  /\ currentView = PDFProcessView
  /\ ~pdfProcess.loading
  /\ \/ /\ pdfProcess.inputMode = "test_name"
        /\ Len(TrimSpace(pdfProcess.input)) < 1
     \/ /\ pdfProcess.inputMode = "num_questions"
        /\ LET num == Atoi(TrimSpace(pdfProcess.input))
           IN ~(num.ok /\ num.val >= 1 /\ num.val <= 50)

\* C24: when Enter confirms a text input that fails its validation (test name,
\* question text, correct answer, option, number of questions), the stored
\* field keeps its value, an error message is set, and the input buffer and the
\* input mode are kept so that the input can be corrected.
C24_InvalidInputRetained ==
  [][\A e \in EnvFor(App, "enter") :
       /\ (CustomInputInvalid /\ Handles("enter", e)) =>
            /\ customQuestion'.testName = customQuestion.testName
            /\ customQuestion'.currentQuestion = customQuestion.currentQuestion
            /\ customQuestion'.errorMsg # ""
            /\ customQuestion'.input = customQuestion.input
            /\ customQuestion'.inputMode = customQuestion.inputMode
       /\ (PDFInputInvalid /\ Handles("enter", e)) =>
            /\ pdfProcess'.testName = pdfProcess.testName
            /\ pdfProcess'.numQuestions = pdfProcess.numQuestions
            /\ pdfProcess'.errorMsg # ""
            /\ pdfProcess'.input = pdfProcess.input
            /\ pdfProcess'.inputMode = pdfProcess.inputMode]_vars

\* the same, without the input being kept: the field keeps its value and an
\* error message is set
C24_InvalidInputRejected ==
  [][\A e \in EnvFor(App, "enter") :
       /\ (CustomInputInvalid /\ Handles("enter", e)) =>
            /\ customQuestion'.testName = customQuestion.testName
            /\ customQuestion'.currentQuestion = customQuestion.currentQuestion
            /\ customQuestion'.errorMsg # ""
       /\ (PDFInputInvalid /\ Handles("enter", e)) =>
            /\ pdfProcess'.testName = pdfProcess.testName
            /\ pdfProcess'.numQuestions = pdfProcess.numQuestions
            /\ pdfProcess'.errorMsg # ""]_vars


\* ---- PDF wizard ----

ExtractStep ==
  /\ currentView = PDFProcessView
  /\ ~pdfProcess.loading
  /\ pdfProcess.inputMode = ""
  /\ pdfProcess.step = 0

\* C25: the step of the PDF wizard only changes from Extract to Configure (when
\* the extraction succeeds, or at once when text is already there), from
\* Configure to Generate (confirm) and from Generate to Configure (back); a
\* failed extraction stays on Extract with an error and no extracted text, text
\* that is already there is not extracted again, and the wizard is on Configure
\* or Generate only if the extracted text is not empty.
C25_StepsOfPDFWizard ==
  /\ [][pdfProcess'.step # pdfProcess.step =>
          /\ currentView = PDFProcessView
          /\ \/ /\ pdfProcess.step = 0 /\ pdfProcess'.step = 1
                /\ pdfProcess'.extractedText # <<>>
             \/ pdfProcess.step = 1 /\ pdfProcess'.step = 2
             \/ pdfProcess.step = 2 /\ pdfProcess'.step = 1]_vars
  /\ [][\A k \in {"enter", " "} : \A e \in EnvFor(App, k) :
          (ExtractStep /\ Handles(k, e)) =>
            IF pdfProcess.extractedText # <<>>
            THEN /\ pdfProcess'.step = 1
                 /\ pdfProcess'.extractedText = pdfProcess.extractedText
                 /\ pdfProcess'.errorMsg = pdfProcess.errorMsg
            ELSE IF e.op /\ TextOf(pdfProcess.selectedFile) # <<>>
            THEN /\ pdfProcess'.step = 1
                 /\ pdfProcess'.extractedText = TextOf(pdfProcess.selectedFile)
            ELSE /\ pdfProcess'.step = 0
                 /\ pdfProcess'.errorMsg # ""
                 /\ pdfProcess'.extractedText = <<>>]_vars
  /\ [][\A e \in EnvFor(App, "b") :
          (GenerateStep /\ Handles("b", e)) => pdfProcess'.step = 1]_vars
  /\ [][\A k \in {"enter", " "} : \A e \in EnvFor(App, k) :
          (ConfigureStep /\ Handles(k, e)) => pdfProcess'.step = 2]_vars
  /\ [](pdfProcess.step \in {1, 2} => pdfProcess.extractedText # <<>>)

\* the wizard has gone from Extract to Configure and on to Generate
C25_Witness ==
  /\ currentView = PDFProcessView
  /\ phase = "view"
  /\ pdfProcess.step = 2
  /\ pdfProcess.extractedText = TextOf(pdfProcess.selectedFile)
  /\ pdfProcess.extractedText # <<>>

\* C26: GetTextSummary returns the text itself when it is not longer than the
\* maximum; otherwise it returns the text up to b followed by "...", b being the
\* largest index within the last SummaryWindow positions up to the maximum, and
\* above 0, that holds a space, a period or a newline, or the maximum when there
\* is none.
C26_SummaryBreaksAtLastBreak ==
  (probe.kind = "GetTextSummary" /\ probe.done) =>
    LET text == probe.text
        max == probe.maxLength
        breaks == {i \in 1..max : /\ max - SummaryWindow < i
                                  /\ i < Len(text)
                                  /\ text[i + 1] \in {" ", ".", "\n"}}
        b == IF breaks = {} THEN max
             ELSE CHOOSE i \in breaks : \A j \in breaks : j <= i
    IN IF Len(text) <= max THEN probe.out = text
       ELSE probe.out = SubSeq(text, 1, b) \o <<".", ".", ".">>

\* A text longer than the maximum was cut at a space below the maximum, a second
\* space lying just below the window.
C26_Witness ==
  /\ probe.kind = "GetTextSummary" /\ probe.done
  /\ Len(probe.text) > probe.maxLength
  /\ probe.maxLength > SummaryWindow
  /\ probe.text[probe.maxLength - SummaryWindow + 1] = " "
  /\ Len(probe.out) < probe.maxLength + 3
  /\ Len(probe.out) > 3

\* A text without a break in the window was cut at the maximum.
C26_WitnessNoBreak ==
  /\ probe.kind = "GetTextSummary" /\ probe.done
  /\ Len(probe.text) > probe.maxLength
  /\ probe.maxLength > 0
  /\ Len(probe.out) = probe.maxLength + 3

\* The lines of a page that the cleaning keeps, trimmed and in their order: a
\* line lies between two neighbouring ends (a newline, or an end of the text).
KeptLines(text) ==
  LET ends == {0, Len(text) + 1} \cup {i \in 1..Len(text) : text[i] = "\n"}
      segments == {seg \in ends \X ends :
                     /\ seg[1] < seg[2]
                     /\ ~\E mid \in ends : seg[1] < mid /\ mid < seg[2]}
      line(seg) == TrimSpace(SubSeq(text, seg[1] + 1, seg[2] - 1))
      kept == {seg \in segments : Len(line(seg)) >= MinLineLength}
      nth(k) == CHOOSE seg \in kept : Cardinality({t \in kept : t[1] < seg[1]}) = k - 1
  IN [k \in 1..Cardinality(kept) |-> line(nth(k))]

\* The texts of parts put one after another with sep between neighbours.
RECURSIVE Joined(_, _)
Joined(parts, sep) ==
  IF parts = <<>> THEN <<>>
  ELSE IF Len(parts) = 1 THEN parts[1]
  ELSE parts[1] \o sep \o Joined(Tail(parts), sep)

\* The pages of a document that answer a text in which a line is kept.
YieldingPages(doc) ==
  SelectSeq(doc.pages, LAMBDA page : ~page.null /\ ~page.err /\ KeptLines(page.text) # <<>>)

\* C27: of a document that opens, ExtractText keeps of every page the lines that
\* have MinLineLength characters or more once trimmed, joined by single spaces; a
\* page without such a line contributes nothing; the result has no white space
\* at either end; no page yielding a text is an error and not an empty text;
\* the pages "Hello world" and "A" give "Hello world" and no error.
C27_ExtractTextCleansPages ==
  (probe.kind = "ExtractText" /\ probe.done /\ probe.doc.opens) =>
    LET yielding == YieldingPages(probe.doc)
        cleaned == [i \in 1..Len(yielding) |-> Joined(KeptLines(yielding[i].text), <<" ">>)]
    IN /\ (yielding = <<>>) <=> (probe.out.err # "")
       /\ probe.out.err # "" => probe.out.text = <<>>
       /\ probe.out.err = "" =>
            /\ probe.out.text = Joined(cleaned, <<"\n", "\n">>)
            /\ probe.out.text # <<>>
            /\ ~IsSpace(Head(probe.out.text))
            /\ ~IsSpace(probe.out.text[Len(probe.out.text)])
       /\ [i \in 1..Len(probe.doc.pages) |-> probe.doc.pages[i].text] = <<HelloWorld, <<"A">>>>
            => probe.out = [text |-> HelloWorld, err |-> ""]

\* The pages "Hello world" and "A" were extracted.
C27_Witness ==
  /\ probe.kind = "ExtractText" /\ probe.done /\ probe.doc.opens
  /\ [i \in 1..Len(probe.doc.pages) |-> probe.doc.pages[i].text] = <<HelloWorld, <<"A">>>>
  /\ probe.out = [text |-> HelloWorld, err |-> ""]

\* A document whose pages hold short lines only was answered with the error.
C27_WitnessNoText ==
  /\ probe.kind = "ExtractText" /\ probe.done /\ probe.doc.opens
  /\ Len(probe.doc.pages) = MaxPages
  /\ \A i \in 1..MaxPages : probe.doc.pages[i].text # <<>>
  /\ probe.out.err = "no text could be extracted from the PDF"

\* Two pages contributed, one of them a line that had to be trimmed.
C27_WitnessTwoPages ==
  /\ probe.kind = "ExtractText" /\ probe.done /\ probe.doc.opens
  /\ Len(YieldingPages(probe.doc)) = 2
  /\ \E i \in 1..Len(probe.doc.pages) : probe.doc.pages[i].text \notin {HelloWorld, <<"A">>, <<>>}
  /\ probe.out.err = ""

\* C28: Esc pressed while a text input is open (a field of the custom wizard, a
\* field of the PDF configure step, the directory of the file selection) cancels
\* the edit: the input mode is left and the buffer cleared, the edited field
\* keeps its value, and the active screen and the step of the wizard stay.
C28_EscCancelsEdit ==
  [][\A e \in EnvFor(App, "esc") :
       /\ (currentView = CustomQuestionView /\ customQuestion.inputMode # ""
             /\ Handles("esc", e)) =>
            /\ customQuestion' = [customQuestion EXCEPT !.inputMode = "", !.input = <<>>]
            /\ currentView' = CustomQuestionView
       /\ (currentView = PDFProcessView /\ pdfProcess.inputMode # "" /\ Handles("esc", e)) =>
            /\ pdfProcess' = [pdfProcess EXCEPT !.inputMode = "", !.input = <<>>]
            /\ currentView' = PDFProcessView
       /\ (currentView = FileSelectionView /\ fileSelection.inputMode /\ Handles("esc", e)) =>
            /\ fileSelection' = [fileSelection EXCEPT !.inputMode = FALSE, !.input = <<>>]
            /\ currentView' = FileSelectionView]_vars

\* what Esc does to an open text input: the main menu becomes the active
\* screen, and the input mode and the buffer stay as they were
C28_EscLeavesEditOpen ==
  [][\A e \in EnvFor(App, "esc") :
       (/\ \/ currentView = CustomQuestionView /\ customQuestion.inputMode # ""
           \/ currentView = PDFProcessView /\ pdfProcess.inputMode # ""
           \/ currentView = FileSelectionView /\ fileSelection.inputMode
        /\ Handles("esc", e)) =>
         /\ currentView' = MainMenuView
         /\ UNCHANGED <<customQuestion, pdfProcess, fileSelection>>]_vars

\* C29: Esc pressed while the answers of a finished test are reviewed ends the
\* review and shows the result of the same session again: the review flag is
\* cleared and the reviewed question reset to 0, the test-taking screen stays
\* the active one, the result is still shown and the answers are kept.
C29_EscEndsReview ==
  [][\A e \in EnvFor(App, "esc") :
       (/\ currentView = TestTakingView
        /\ testTaking.showResult /\ testTaking.reviewMode
        /\ Handles("esc", e)) =>
         /\ ~testTaking'.reviewMode
         /\ testTaking'.reviewQuestion = 0
         /\ currentView' = TestTakingView
         /\ testTaking'.showResult
         /\ userAnswers' = userAnswers
         /\ currentQuestions' = currentQuestions]_vars

\* what Esc does to a review: the main menu becomes the active screen and the
\* review stays as it was
C29_EscLeavesReviewOpen ==
  [][\A e \in EnvFor(App, "esc") :
       (/\ currentView = TestTakingView
        /\ testTaking.showResult /\ testTaking.reviewMode
        /\ Handles("esc", e)) =>
         /\ currentView' = MainMenuView
         /\ UNCHANGED <<testTaking, userAnswers, currentQuestions>>]_vars

\* C30: the text handed to GenerateQuestions is the text extracted from the file
\* selected in the PDF wizard, and the extracted text the wizard holds is always
\* the text of its selected file.
C30_TextBelongsToSelectedFile ==
  /\ [][\A k \in {"enter", " "} : \A e \in EnvFor(App, k) :
          (GenerateStep /\ EnabledTypes(pdfProcess) # {} /\ Handles(k, e)) =>
            generateCall(App).text = TextOf(pdfProcess.selectedFile)]_vars
  /\ [][pdfProcess'.extractedText # <<>> =>
          pdfProcess'.extractedText = TextOf(pdfProcess'.selectedFile)]_vars

\* the part of C30 about the call alone
C30_GeneratesFromSelectedFile ==
  [][\A k \in {"enter", " "} : \A e \in EnvFor(App, k) :
       (GenerateStep /\ EnabledTypes(pdfProcess) # {} /\ Handles(k, e)) =>
         generateCall(App).text = TextOf(pdfProcess.selectedFile)]_vars

\* C31: while a question of the test-taking screen waits for its answer, the
\* option cursor lies within the choices of that question: below the number of
\* its options and below 4 for multiple_choice, 0 or 1 for true_false; and a
\* question that is shown for the first time, the first question of a session
\* that has just been started included, is shown with the cursor on 0.
C31_OptionCursorInRange ==
  /\ [](Answering({"multiple_choice"}) =>
          LET options == currentQuestions[testTaking.currentQuestion + 1].Options
          IN /\ 0 <= testTaking.cursor
             /\ testTaking.cursor < Len(options)
             /\ testTaking.cursor < 4)
  /\ [](Answering({"true_false"}) => testTaking.cursor \in {0, 1})
  /\ [][(/\ currentView' = TestTakingView
         /\ ~testTaking'.showResult
         /\ \/ currentView # TestTakingView
            \/ testTaking'.currentQuestion # testTaking.currentQuestion)
          => testTaking'.cursor = 0]_vars

\* the part of C31 that holds: within a session, the step to the next question
\* puts the cursor on 0
C31_NextQuestionResetsCursor ==
  [][(/\ currentView = TestTakingView /\ currentView' = TestTakingView
      /\ testTaking'.currentQuestion # testTaking.currentQuestion)
       => testTaking'.cursor = 0]_vars

\* cursor is an index of a list of n elements, or 0 when the list is empty
ValidCursor(cursor, n) == 0 <= cursor /\ cursor < (IF n = 0 THEN 1 ELSE n)

\* C32: in every state the cursor of the main menu lies in [0, 4], and the
\* cursors of the file list, of the test list and of the results list are
\* indices of their lists, or 0 when the list is empty.
C32_ListCursorsValid ==
  /\ mainMenu.cursor \in 0..(NumChoices - 1)
  /\ ValidCursor(fileSelection.cursor, Len(fileSelection.files))
  /\ ValidCursor(testSelection.cursor, Len(testSelection.tests))
  /\ ValidCursor(testResults.cursor, Len(testResults.results))

\* The last test of the list has been deleted with the cursor on it: the list
\* is shorter than the storage was at the start and the cursor is on its new
\* last element.
C32_Witness ==
  /\ currentView = TestSelectionView
  /\ phase = "view"
  /\ Len(testSelection.tests) > 0
  /\ testSelection.cursor = Len(testSelection.tests) - 1
  /\ testSelection.tests[Len(testSelection.tests)].ID = 2
  /\ 1 \notin PersistedIDs
  /\ C32_ListCursorsValid

\* C33: while a short_answer question waits for its answer, Enter on a buffer
\* that is empty or holds white space only records no answer, stays on the
\* question and sets an error; Enter on any other buffer records the trimmed
\* buffer as the answer to the current question, clears the buffer and advances.
C33_ShortAnswerConfirm ==
  [][\A e \in EnvFor(App, "enter") :
       (Answering({"short_answer"}) /\ Handles("enter", e)) =>
         LET q == currentQuestions[testTaking.currentQuestion + 1]
         IN IF \A i \in 1..Len(testTaking.input) : IsSpace(testTaking.input[i])
            THEN /\ userAnswers' = userAnswers
                 /\ testTaking'.currentQuestion = testTaking.currentQuestion
                 /\ ~testTaking'.showResult
                 /\ testTaking'.errorMsg # ""
            ELSE /\ q.ID \in DOMAIN userAnswers'
                 /\ userAnswers'[q.ID] = TrimSpace(testTaking.input)
                 /\ \A id \in DOMAIN userAnswers' \ {q.ID} :
                      id \in DOMAIN userAnswers /\ userAnswers'[id] = userAnswers[id]
                 /\ testTaking'.input = <<>>
                 /\ IF testTaking.currentQuestion < Len(currentQuestions) - 1
                    THEN testTaking'.currentQuestion = testTaking.currentQuestion + 1
                    ELSE testTaking'.showResult]_vars

\* Enter on a buffer of white space has been refused.
C33_Witness ==
  /\ Answering({"short_answer"})
  /\ phase = "view"
  /\ testTaking.errorMsg = "Please enter an answer"
  /\ testTaking.input # <<>>
  /\ currentQuestions[testTaking.currentQuestion + 1].ID \notin DOMAIN userAnswers

\* the option input of the custom wizard is open
OptionInput ==
  currentView = CustomQuestionView /\ customQuestion.inputMode = "option"

\* C34: Enter on a non-blank buffer in the option input of the custom wizard
\* stores the trimmed buffer in the slot of the option index; below slot 3 the
\* input stays open on the next slot with that slot's value in the buffer, on
\* slot 3 the input is left. The option index lies in [0, 3], and while the
\* option input is open it is a slot of the 4 options of a multiple_choice
\* question.
C34_OptionInputAdvances ==
  /\ [](customQuestion.optionIndex \in 0..3)
  /\ [](OptionInput =>
          /\ customQuestion.currentQuestion.qType = "multiple_choice"
          /\ Len(customQuestion.currentQuestion.options) = 4)
  /\ [][\A e \in EnvFor(App, "enter") :
          (OptionInput /\ NonBlank(customQuestion.input) /\ Handles("enter", e)) =>
            LET i == customQuestion.optionIndex
                options == customQuestion.currentQuestion.options
                stored == [options EXCEPT ![i + 1] = TrimSpace(customQuestion.input)]
            IN /\ customQuestion'.currentQuestion =
                    [customQuestion.currentQuestion EXCEPT !.options = stored]
               /\ IF i < 3
                  THEN /\ customQuestion'.inputMode = "option"
                       /\ customQuestion'.optionIndex = i + 1
                       /\ customQuestion'.input = stored[i + 2]
                  ELSE /\ customQuestion'.inputMode = ""
                       /\ customQuestion'.input = <<>>]_vars

\* The fourth option has been confirmed: the input is closed and all four slots
\* are filled.
C34_Witness ==
  /\ currentView = CustomQuestionView
  /\ phase = "view"
  /\ customQuestion.inputMode = ""
  /\ customQuestion.optionIndex = 3
  /\ \A i \in 1..4 : customQuestion.currentQuestion.options[i] # <<>>

\* C35: in the custom wizard the type of the question being written is the
\* entry of the order multiple_choice, true_false, short_answer at the type
\* index; its options are 4 slots when the type is multiple_choice and none
\* otherwise; a change of the type goes one step on in the cyclic order and
\* leaves none of the options entered before; and a question that has been
\* saved is not changed as long as it is in the list.
C35_TypeFollowsOrder ==
  /\ [](LET cur == customQuestion.currentQuestion
        IN /\ customQuestion.typeIndex \in 0..(Len(QuestionTypeOrder) - 1)
           /\ cur.qType = QuestionTypeOrder[customQuestion.typeIndex + 1]
           /\ Len(cur.options) = (IF cur.qType = "multiple_choice" THEN 4 ELSE 0))
  /\ [][customQuestion'.currentQuestion.qType # customQuestion.currentQuestion.qType =>
          /\ customQuestion'.currentQuestion.qType =
               NextInCycle(customQuestion.currentQuestion.qType)
          /\ customQuestion'.typeIndex =
               (customQuestion.typeIndex + 1) % Len(QuestionTypeOrder)
          /\ \A i \in 1..Len(customQuestion'.currentQuestion.options) :
               customQuestion'.currentQuestion.options[i] = <<>>]_vars
  /\ [][\A i \in 1..Len(customQuestion'.questions) :
          i <= Len(customQuestion.questions) =>
            customQuestion'.questions[i] = customQuestion.questions[i]]_vars

\* The four options of a multiple_choice question were entered and the type was
\* then changed to true_false: no option is left.
C35_Witness ==
  /\ currentView = CustomQuestionView
  /\ phase = "view"
  /\ customQuestion.optionIndex = 3
  /\ customQuestion.inputMode = ""
  /\ customQuestion.typeIndex = 1
  /\ customQuestion.currentQuestion.qType = "true_false"
  /\ customQuestion.currentQuestion.options = <<>>

\* isCorrect of viewAnswerReview (test_taking.go 287-290): the answer stored
\* for the question, or the empty string when there is none, against the stored
\* correct answer
isCorrect(q, answers) ==
  EqualFold(IF q.ID \in DOMAIN answers THEN answers[q.ID] ELSE <<>>, q.CorrectAnswer)

\* C36: for a completed session the number of questions the review shows as
\* CORRECT is the correct count of the result summary, which is the count that
\* is saved, whatever the stored correct answers and the answers given are.
C36_ReviewAgreesWithScore ==
  (currentView = TestTakingView /\ testTaking.showResult /\ Len(currentQuestions) > 0) =>
    Cardinality({i \in 1..Len(currentQuestions) : isCorrect(currentQuestions[i], userAnswers)})
      = calculateScore(currentQuestions, userAnswers).correct

\* the ids of the results in the list of the results screen
ListedResultIDs(tr) == {tr.results[j].ID : j \in 1..Len(tr.results)}

\* the ids of the results in storage
StoredResultIDs == {db.results[j].id : j \in 1..Len(db.results)}

\* C37: when the results screen is entered from the test selection it is in its
\* list sub-view and its list holds the results that are in storage; and
\* whenever its detail sub-view is active, a result is selected that is in
\* storage and in the list of the screen.
C37_ResultsEnteredOnFreshList ==
  /\ [][(currentView = TestSelectionView /\ currentView' = TestResultsView) =>
          /\ testResults'.viewMode = "list"
          /\ ListedResultIDs(testResults') = {db'.results[j].id : j \in 1..Len(db'.results)}]_vars
  /\ []((currentView = TestResultsView /\ testResults.viewMode = "detail") =>
          /\ testResults.selectedResult # NIL
          /\ testResults.selectedResult.ID \in StoredResultIDs
          /\ testResults.selectedResult.ID \in ListedResultIDs(testResults))

\* the part of C37 about the detail sub-view alone
C37_DetailHasStoredResult ==
  (currentView = TestResultsView /\ testResults.viewMode = "detail") =>
    /\ testResults.selectedResult # NIL
    /\ testResults.selectedResult.ID \in StoredResultIDs
    /\ testResults.selectedResult.ID \in ListedResultIDs(testResults)

\* Enter on the test selection, opened to take a test, meets a test that cannot
\* be started: its questions cannot be read (e.op is false) or it has none.
StartFails(e) ==
  /\ currentView = TestSelectionView
  /\ ~testSelection.loading
  /\ testSelection.purpose = "take_test"
  /\ Len(testSelection.tests) > 0
  /\ \/ ~e.op
     \/ GetQuestionsByTestID(db, testSelection.tests[testSelection.cursor + 1].ID) = <<>>

\* C38: selecting a test that fails to start leaves the test selection the
\* active screen, sets an error message, and leaves the current test, the
\* current questions and the answers as they were.
C38_FailedStartKeepsSession ==
  [][\A e \in EnvFor(App, "enter") :
       (StartFails(e) /\ Handles("enter", e)) =>
         /\ currentView' = TestSelectionView
         /\ testSelection'.errorMsg # ""
         /\ currentTest' = currentTest
         /\ currentQuestions' = currentQuestions
         /\ userAnswers' = userAnswers]_vars

\* the same without the current test: the screen stays, the error is set, and
\* the questions and the answers are as they were
C38_FailedStartKeepsQuestions ==
  [][\A e \in EnvFor(App, "enter") :
       (StartFails(e) /\ Handles("enter", e)) =>
         /\ currentView' = TestSelectionView
         /\ testSelection'.errorMsg # ""
         /\ currentTest' # NIL
         /\ currentTest'.ID = testSelection.tests[testSelection.cursor + 1].ID
         /\ currentQuestions' = currentQuestions
         /\ userAnswers' = userAnswers]_vars

\* C39: when the file selection is entered from the main menu with an empty
\* file list, the list is filled on entry with the PDF files of the current
\* directory, so that they are listed and can be selected at once.
C39_FileListFilledOnEntry ==
  [][\A e \in EnvFor(App, "enter") :
       (/\ currentView = MainMenuView
        /\ fileSelection.files = <<>>
        /\ Handles("enter", e)
        /\ currentView' = FileSelectionView) =>
         fileSelection'.files = listPDFFiles(fileSelection'.currentDir)]_vars

\* what the entry does: the list stays empty, and Enter on the file selection
\* selects nothing until the list has been refreshed
C39_EntryLeavesListEmpty ==
  /\ [][\A e \in EnvFor(App, "enter") :
          (/\ currentView = MainMenuView
           /\ fileSelection.files = <<>>
           /\ Handles("enter", e)
           /\ currentView' = FileSelectionView) =>
            fileSelection'.files = <<>>]_vars
  /\ [][\A e \in EnvFor(App, "enter") :
          (/\ currentView = FileSelectionView
           /\ ~fileSelection.inputMode
           /\ fileSelection.files = <<>>
           /\ Handles("enter", e)) =>
            /\ currentView' = FileSelectionView
            /\ pdfProcess' = pdfProcess]_vars

\* C40: in every state between two key events the loading flags of the PDF
\* wizard and of the test selection are false, so that no key is ignored
\* because of them.
C40_LoadingFlagsClear ==
  ~pdfProcess.loading /\ ~testSelection.loading

\* A generation has failed on the generate step of the wizard, and an
\* extraction had succeeded before it.
C40_Witness ==
  /\ currentView = PDFProcessView
  /\ phase = "view"
  /\ pdfProcess.step = 2
  /\ pdfProcess.extractedText # <<>>
  /\ pdfProcess.errorMsg = "Failed to generate questions"
  /\ C40_LoadingFlagsClear

\* A failed extraction has left the wizard on its extract step.
C40_WitnessExtract ==
  /\ currentView = PDFProcessView
  /\ phase = "view"
  /\ pdfProcess.step = 0
  /\ pdfProcess.errorMsg = "Failed to extract text"
  /\ C40_LoadingFlagsClear

\* The test selection has failed to load its tests.
C40_WitnessTests ==
  /\ currentView = TestSelectionView
  /\ phase = "view"
  /\ testSelection.errorMsg = "Failed to load tests"
  /\ C40_LoadingFlagsClear

====
